---- MODULE Spec2Model ----
(***************************************************************************)
(* A model of static/js/expenses.js: the ExpensesManager table (cell       *)
(* editing, formula evaluation, net-earn computation, loading from the     *)
(* server).                                                                *)
(*                                                                         *)
(* Texts are sequences of one-character strings.  Numbers are exact        *)
(* rationals with the IEEE-754 special values the code can produce         *)
(* (signed zero, +-Infinity, NaN); binary rounding of doubles is not       *)
(* modelled.                                                               *)
(***************************************************************************)
EXTENDS Integers, Sequences, FiniteSets, Bags, TLC

(***************************************************************************)
(* Characters and texts                                                    *)
(***************************************************************************)
Digits10 == <<"0", "1", "2", "3", "4", "5", "6", "7", "8", "9">>

DigitChars == {Digits10[i] : i \in 1..10}

IsDigit(c) == c \in DigitChars

DigitVal(c) == (CHOOSE i \in 1..10 : Digits10[i] = c) - 1

DigitChar(n) == Digits10[n + 1]

\* JavaScript white space that can occur in the value of an <input type="text">
\* (the value sanitisation of text inputs strips CR and LF).
WhiteSpace == {" "}

RECURSIVE IntToChars(_)
IntToChars(n) ==
    IF n < 10 THEN <<DigitChar(n)>>
    ELSE Append(IntToChars(n \div 10), DigitChar(n % 10))

\* s.substring(i - 1): the text from position i (1-based) to the end.
From(s, i) == IF i > Len(s) THEN <<>> ELSE SubSeq(s, i, Len(s))

\* Whether text p occurs in s at position i.
StartsAt(s, i, p) ==
    /\ i >= 1
    /\ i + Len(p) - 1 <= Len(s)
    /\ \A j \in 1..Len(p) : s[i + j - 1] = p[j]

\* String.prototype.trim
RECURSIVE TrimLeft(_)
TrimLeft(s) ==
    IF s # <<>> /\ Head(s) \in WhiteSpace THEN TrimLeft(Tail(s)) ELSE s

RECURSIVE TrimRight(_)
TrimRight(s) ==
    IF s # <<>> /\ s[Len(s)] \in WhiteSpace
    THEN TrimRight(SubSeq(s, 1, Len(s) - 1))
    ELSE s

Trim(s) == TrimRight(TrimLeft(s))

\* s.replace(/,/g, '')
RECURSIVE StripCommas(_)
StripCommas(s) ==
    IF s = <<>> THEN <<>>
    ELSE IF Head(s) = "," THEN StripCommas(Tail(s))
    ELSE <<Head(s)>> \o StripCommas(Tail(s))

\* s.replace(/c{2,}/g, c): every run of two or more c becomes one c.
RECURSIVE CollapseRuns(_, _)
CollapseRuns(s, c) ==
    IF s = <<>> THEN <<>>
    ELSE IF Head(s) = c /\ Len(s) >= 2 /\ s[2] = c THEN CollapseRuns(Tail(s), c)
    ELSE <<Head(s)>> \o CollapseRuns(Tail(s), c)

\* s.replace(/ab/g, r): left to right, non-overlapping, one pass.
RECURSIVE ReplacePair(_, _, _, _)
ReplacePair(s, a, b, r) ==
    IF s = <<>> THEN <<>>
    ELSE IF Head(s) = a /\ Len(s) >= 2 /\ s[2] = b
         THEN <<r>> \o ReplacePair(From(s, 3), a, b, r)
    ELSE <<Head(s)>> \o ReplacePair(Tail(s), a, b, r)

(***************************************************************************)
(* Numbers: k = "fin" is the rational s * n / d in lowest terms (n = 0,    *)
(* d = 1 with s = -1 is negative zero), k = "inf" is s * Infinity,         *)
(* k = "nan" is NaN.                                                       *)
(***************************************************************************)
RECURSIVE GCD(_, _)
GCD(a, b) == IF b = 0 THEN a ELSE GCD(b, a % b)

Fin(s, n, d) ==
    LET g == GCD(n, d) IN [k |-> "fin", s |-> s, n |-> n \div g, d |-> d \div g]

Inf(s) == [k |-> "inf", s |-> s, n |-> 0, d |-> 1]

NaN == [k |-> "nan", s |-> 1, n |-> 0, d |-> 1]

Zero == Fin(1, 0, 1)

IsZero(x) == x.k = "fin" /\ x.n = 0

IsNegative(x) == x.k # "nan" /\ x.s = -1 /\ ~IsZero(x)

Neg(x) == IF x.k = "nan" THEN NaN ELSE [x EXCEPT !.s = -x.s]

NumAdd(x, y) ==
    IF x.k = "nan" \/ y.k = "nan" THEN NaN
    ELSE IF x.k = "inf" /\ y.k = "inf" THEN (IF x.s = y.s THEN x ELSE NaN)
    ELSE IF x.k = "inf" THEN x
    ELSE IF y.k = "inf" THEN y
    ELSE LET t == x.s * x.n * y.d + y.s * y.n * x.d
         IN  IF t = 0
             THEN Fin(IF IsZero(x) /\ IsZero(y) /\ x.s = -1 /\ y.s = -1
                      THEN -1 ELSE 1, 0, 1)
             ELSE Fin(IF t < 0 THEN -1 ELSE 1, IF t < 0 THEN -t ELSE t, x.d * y.d)

NumSub(x, y) == NumAdd(x, Neg(y))

NumMul(x, y) ==
    IF x.k = "nan" \/ y.k = "nan" THEN NaN
    ELSE IF (x.k = "inf" /\ IsZero(y)) \/ (IsZero(x) /\ y.k = "inf") THEN NaN
    ELSE IF x.k = "inf" \/ y.k = "inf" THEN Inf(x.s * y.s)
    ELSE Fin(x.s * y.s, x.n * y.n, x.d * y.d)

NumDiv(x, y) ==
    IF x.k = "nan" \/ y.k = "nan" THEN NaN
    ELSE IF (x.k = "inf" /\ y.k = "inf") \/ (IsZero(x) /\ IsZero(y)) THEN NaN
    ELSE IF x.k = "inf" \/ IsZero(y) THEN Inf(x.s * y.s)
    ELSE IF y.k = "inf" THEN Fin(x.s * y.s, 0, 1)
    ELSE Fin(x.s * y.s, x.n * y.d, x.d * y.n)

\* Number.prototype.toFixed(2): the nearest multiple of 1/100, the larger one
\* on a tie, with the sign of a negative number kept ("-0.00" for -0.001).
ToFixed2(x) ==
    IF x.k = "nan" THEN <<"N", "a", "N">>
    ELSE IF x.k = "inf"
         THEN (IF x.s = -1 THEN <<"-">> ELSE <<>>)
              \o <<"I", "n", "f", "i", "n", "i", "t", "y">>
    ELSE LET m == (x.n * 200 + x.d) \div (2 * x.d)
         IN  (IF IsNegative(x) THEN <<"-">> ELSE <<>>)
             \o IntToChars(m \div 100)
             \o <<".", DigitChar((m % 100) \div 10), DigitChar(m % 10)>>

(***************************************************************************)
(* parseFloat                                                              *)
(***************************************************************************)
RECURSIVE Pow10(_)
Pow10(n) == IF n = 0 THEN 1 ELSE 10 * Pow10(n - 1)

\* The first position at or after i that holds no decimal digit.
RECURSIVE DigitsEnd(_, _)
DigitsEnd(s, i) ==
    IF i <= Len(s) /\ IsDigit(s[i]) THEN DigitsEnd(s, i + 1) ELSE i

\* The value of the decimal digits s[i..j-1] (0 when there are none).
RECURSIVE DigitsValue(_, _, _)
DigitsValue(s, i, j) ==
    IF j <= i THEN 0 ELSE 10 * DigitsValue(s, i, j - 1) + DigitVal(s[j - 1])

\* The decimal number whose integer part ends before e1 and whose fraction
\* digits, if any, are s[e1+1..e2-1].
DecimalValue(s, i, e1, e2, sign) ==
    LET f == IF e2 > e1 THEN e2 - e1 - 1 ELSE 0
    IN  Fin(sign,
            DigitsValue(s, i, e1) * Pow10(f)
              + (IF f > 0 THEN DigitsValue(s, e1 + 1, e2) ELSE 0),
            Pow10(f))

InfinityChars == <<"I", "n", "f", "i", "n", "i", "t", "y">>

\* parseFloat(text): the longest prefix, after leading white space, that is a
\* signed decimal literal or Infinity; NaN when there is none.  No text of
\* this model holds an exponent part.
parseFloat(text) ==
    LET t    == TrimLeft(text)
        sg   == IF t # <<>> /\ t[1] = "-" THEN -1 ELSE 1
        i    == IF t # <<>> /\ t[1] \in {"+", "-"} THEN 2 ELSE 1
        e1   == DigitsEnd(t, i)
        e2   == IF e1 <= Len(t) /\ t[e1] = "." THEN DigitsEnd(t, e1 + 1) ELSE e1
    IN  IF StartsAt(t, i, InfinityChars) THEN Inf(sg)
        ELSE IF e1 = i /\ e2 <= e1 + 1 THEN NaN
        ELSE DecimalValue(t, i, e1, e2, sg)

(***************************************************************************)
(* The dynamic evaluator: what Function("'use strict'; return (" + e + ")")*)
(* does on a text e of digits, + - * / ( ) . and white space.  A value is  *)
(* a number (t = "num"), a RegExp object (t = "re": a / in operand         *)
(* position starts a regular-expression literal), or a string built by +   *)
(* from one of these (t = "str"), of which only what parseFloat reads is   *)
(* kept: num, and whether the string starts with "/".  t = "unm" is a      *)
(* string whose leading number this model does not compute (a number       *)
(* concatenated in front of a string that starts with digits).             *)
(***************************************************************************)
NumV(x) == [t |-> "num", num |-> x, slash |-> FALSE]

RegExpV == [t |-> "re", num |-> NaN, slash |-> TRUE]

StrV(x, slash) == [t |-> "str", num |-> x, slash |-> slash]

UnmodelledV == [t |-> "unm", num |-> NaN, slash |-> FALSE]

SyntaxOrTypeError == [ok |-> FALSE, v |-> NumV(NaN), p |-> 0]

Parsed(v, p) == [ok |-> TRUE, v |-> v, p |-> p]

\* ToNumber: a RegExp and every string here (each holds a "/") give NaN.
ToNumber(v) == IF v.t = "num" THEN v.num ELSE NaN

\* parseFloat(String(x)) for a number x: x, with -0 printed as "0".
PrintedNumber(x) == IF IsZero(x) THEN Zero ELSE x

\* The + operator: addition of two numbers, else string concatenation.
JsPlus(a, b) ==
    IF a.t = "num" /\ b.t = "num" THEN NumV(NumAdd(a.num, b.num))
    ELSE IF a.t = "re" THEN StrV(NaN, TRUE)
    ELSE IF a.t = "str" \/ a.t = "unm" THEN a
    ELSE IF b.slash THEN StrV(PrintedNumber(a.num), FALSE)
    ELSE UnmodelledV

\* The position after the comment that starts at i - 2, or 0 when the
\* comment is not closed.
RECURSIVE CommentEnd(_, _)
CommentEnd(s, i) ==
    IF i + 1 > Len(s) THEN 0
    ELSE IF s[i] = "*" /\ s[i + 1] = "/" THEN i + 2
    ELSE CommentEnd(s, i + 1)

\* Skips white space and comments: the position of the next token, Len + 1
\* at the end of the text, 0 for an unterminated comment.
RECURSIVE SkipSpace(_, _)
SkipSpace(s, i) ==
    IF i > Len(s) THEN i
    ELSE IF s[i] \in WhiteSpace THEN SkipSpace(s, i + 1)
    ELSE IF StartsAt(s, i, <<"/", "*">>)
         THEN LET e == CommentEnd(s, i + 2)
              IN  IF e = 0 THEN 0 ELSE SkipSpace(s, e)
    ELSE IF StartsAt(s, i, <<"/", "/">>) THEN Len(s) + 1
    ELSE i

\* A decimal literal at i.  In strict mode an integer part of several digits
\* must not start with 0; a lone "." is no literal.
NumericLiteral(s, i) ==
    LET e1 == DigitsEnd(s, i)
        e2 == IF e1 <= Len(s) /\ s[e1] = "." THEN DigitsEnd(s, e1 + 1) ELSE e1
    IN  IF e1 = i /\ e2 <= e1 + 1 THEN SyntaxOrTypeError
        ELSE IF e1 - i >= 2 /\ s[i] = "0" THEN SyntaxOrTypeError
        ELSE Parsed(NumV(DecimalValue(s, i, e1, e2, 1)), e2)

\* Whether the body s[i..j-1] of a regular-expression literal is a pattern:
\* parentheses match and each * or + follows an atom.
RECURSIVE ValidPattern(_, _, _, _, _)
ValidPattern(s, i, j, depth, atom) ==
    IF i >= j THEN depth = 0
    ELSE IF s[i] = "(" THEN ValidPattern(s, i + 1, j, depth + 1, FALSE)
    ELSE IF s[i] = ")" THEN depth > 0 /\ ValidPattern(s, i + 1, j, depth - 1, TRUE)
    ELSE IF s[i] \in {"*", "+"} THEN atom /\ ValidPattern(s, i + 1, j, depth, FALSE)
    ELSE ValidPattern(s, i + 1, j, depth, TRUE)

\* The position of the first "/" at or after i, 0 when there is none.
RECURSIVE SlashAt(_, _)
SlashAt(s, i) ==
    IF i > Len(s) THEN 0 ELSE IF s[i] = "/" THEN i ELSE SlashAt(s, i + 1)

\* A regular-expression literal whose opening "/" is at i.  A digit right
\* after the closing "/" is read as a flag, and no digit is a flag.
RegExpLiteral(s, i) ==
    LET e == SlashAt(s, i + 1)
    IN  IF e = 0 THEN SyntaxOrTypeError
        ELSE IF ~ValidPattern(s, i + 1, e, 0, FALSE) THEN SyntaxOrTypeError
        ELSE IF e < Len(s) /\ IsDigit(s[e + 1]) THEN SyntaxOrTypeError
        ELSE Parsed(RegExpV, e + 1)

\* The parser of the expression grammar, one recursive operator with the
\* grammar rule as its first argument.  Parse skips white space and comments
\* and hands the position j of the next token to ParseAt (0: a comment is
\* not closed); acc is the value parsed so far, for the rules that continue
\* an expression.
RECURSIVE Parse(_, _, _, _)

\* r, and when it parsed, the rule that follows it.
AndThen(r, rule, s) == IF r.ok THEN Parse(rule, s, r.p, r.v) ELSE r

\* acc + r or acc - r, then the rest of the additive expression.
AddOperand(op, acc, r, s) ==
    IF ~r.ok THEN r
    ELSE Parse("additiveTail", s, r.p,
               IF op = "+" THEN JsPlus(acc, r.v)
               ELSE NumV(NumSub(ToNumber(acc), ToNumber(r.v))))

\* acc * r or acc / r, then the rest of the multiplicative expression.
MulOperand(op, acc, r, s) ==
    IF ~r.ok THEN r
    ELSE Parse("multiplicativeTail", s, r.p,
               NumV(IF op = "*" THEN NumMul(ToNumber(acc), ToNumber(r.v))
                    ELSE NumDiv(ToNumber(acc), ToNumber(r.v))))

\* Unary + or - applied to r.
Signed(op, r) ==
    IF ~r.ok THEN r
    ELSE Parsed(NumV(IF op = "-" THEN Neg(ToNumber(r.v)) ELSE ToNumber(r.v)), r.p)

\* "++" and "--" are the update operators, which no operand of this grammar
\* admits; "**" never reaches the evaluator (calculateFormula collapses it),
\* so exponentiation is given no meaning.
Doubled(s, j) == j < Len(s) /\ s[j + 1] = s[j]

ParseAt(rule, s, j, acc) ==
    IF j = 0 THEN SyntaxOrTypeError
    ELSE CASE rule = "additive" ->
                AndThen(Parse("multiplicative", s, j, acc), "additiveTail", s)
           [] rule = "additiveTail" ->
                IF j > Len(s) \/ s[j] \notin {"+", "-"} THEN Parsed(acc, j)
                ELSE IF Doubled(s, j) THEN SyntaxOrTypeError
                ELSE AddOperand(s[j], acc, Parse("multiplicative", s, j + 1, acc), s)
           [] rule = "multiplicative" ->
                AndThen(Parse("unary", s, j, acc), "multiplicativeTail", s)
           [] rule = "multiplicativeTail" ->
                IF j > Len(s) \/ s[j] \notin {"*", "/"} THEN Parsed(acc, j)
                ELSE IF s[j] = "*" /\ Doubled(s, j) THEN SyntaxOrTypeError
                ELSE MulOperand(s[j], acc, Parse("unary", s, j + 1, acc), s)
           [] rule = "unary" ->
                IF j > Len(s) THEN SyntaxOrTypeError
                ELSE IF s[j] \notin {"+", "-"} THEN Parse("primary", s, j, acc)
                ELSE IF Doubled(s, j) THEN SyntaxOrTypeError
                ELSE Signed(s[j], Parse("unary", s, j + 1, acc))
           [] rule = "primary" ->
                IF j > Len(s) THEN SyntaxOrTypeError
                ELSE IF IsDigit(s[j]) \/ s[j] = "."
                     THEN AndThen(NumericLiteral(s, j), "postfix", s)
                ELSE IF s[j] = "/"
                     THEN AndThen(RegExpLiteral(s, j), "postfix", s)
                ELSE IF s[j] = "("
                     THEN AndThen(AndThen(Parse("additive", s, j + 1, acc), "close", s),
                                  "postfix", s)
                ELSE SyntaxOrTypeError
           [] rule = "close" ->
                IF j > Len(s) \/ s[j] # ")" THEN SyntaxOrTypeError
                ELSE Parsed(acc, j + 1)
           \* A primary expression followed by "(" is a call of a non-function
           \* (TypeError); followed by "." or a digit it is a SyntaxError.
           [] rule = "postfix" ->
                IF j <= Len(s) /\ (s[j] \in {"(", "."} \/ IsDigit(s[j]))
                THEN SyntaxOrTypeError
                ELSE Parsed(acc, j)

Parse(rule, s, i, acc) == ParseAt(rule, s, SkipSpace(s, i), acc)

\* The parse r of a text of n characters is complete when it ends at n + 1.
Completed(r, n) == IF r.ok /\ r.p = n + 1 THEN r ELSE SyntaxOrTypeError

\* Function(`'use strict'; return (${e})`)(): the value of the body's single
\* return statement, or an exception.
EvaluateFunction(e) ==
    Completed(Parse("additive", <<"(">> \o e \o <<")">>, 1, NumV(NaN)), Len(e) + 2)

(***************************************************************************)
(* calculateFormula                                                        *)
(***************************************************************************)
\* The clean-up of lines 530-538: runs of one operator collapse first, then
\* the mixed pairs are rewritten, each replacement applied once, in order.
CleanExpression(expression) ==
    LET c1 == CollapseRuns(expression, "+")
        c2 == CollapseRuns(c1, "-")
        c3 == CollapseRuns(c2, "*")
        c4 == CollapseRuns(c3, "/")
        m1 == ReplacePair(c4, "+", "-", "-")
        m2 == ReplacePair(m1, "-", "+", "-")
    IN  ReplacePair(m2, "-", "-", "+")

\* A validation that would also admit a letter; C6 must tell it from
\* AllowedChars.
AllowedCharsAndLetter ==
    DigitChars \cup {"+", "-", "*", "/", ".", "(", ")", "a"} \cup WhiteSpace

AllowedChars == DigitChars \cup {"+", "-", "*", "/", ".", "(", ")"} \cup WhiteSpace

\* /[^0-9\+\-\*\/\.\(\)\s]/.test(s)
HasInvalidChars(s) == \E i \in 1..Len(s) : s[i] \notin AllowedChars

Returned(text, called) == [state |-> "returned", value |-> text, called |-> called]

Thrown(called) == [state |-> "thrown", value |-> <<>>, called |-> called]

UnmodelledChars == <<"?">>

\* parseFloat(result).toFixed(2) for the value the evaluator returned.
FormatResult(v) ==
    IF v.t = "unm" THEN UnmodelledChars
    ELSE IF v.t = "num" THEN ToFixed2(PrintedNumber(v.num))
    ELSE ToFixed2(v.num)

\* Lines 546-552: the evaluator's value formatted, or its exception thrown on.
Evaluated(r) == IF r.ok THEN Returned(FormatResult(r.v), TRUE) ELSE Thrown(TRUE)

\* Lines 540-552, on the cleaned expression.
Validated(clean) ==
    IF HasInvalidChars(clean) THEN Thrown(FALSE)
    ELSE Evaluated(EvaluateFunction(clean))

\* calculateFormula(expression): the text returned, or an exception thrown;
\* called tells whether the text reached the dynamic evaluator.
calculateFormula(expression) ==
    IF expression = <<>> THEN Returned(<<>>, FALSE)
    ELSE Validated(CleanExpression(expression))

(***************************************************************************)
(* Objects: a JavaScript object is a function from its keys; a key that is *)
(* not set reads as Undefined.                                             *)
(***************************************************************************)
Undefined == <<"undefined">>

EmptyObject == [k \in {} |-> <<>>]

Get(obj, key) == IF key \in DOMAIN obj THEN obj[key] ELSE Undefined

Put(obj, key, v) ==
    [k \in DOMAIN obj \cup {key} |-> IF k = key THEN v ELSE obj[k]]

Delete(obj, key) == [k \in DOMAIN obj \ {key} |-> obj[k]]

\* A text is truthy when it is set and not empty.
Truthy(v) == v # Undefined /\ v # <<>>

\* v || ''
OrEmpty(v) == IF Truthy(v) THEN v ELSE <<>>

(***************************************************************************)
(* The expense record of a unit and its net earn                           *)
(***************************************************************************)
expenseColumns ==
    <<"sales", "rental", "electricity", "water", "sewage", "internet",
      "cleaner", "laundry", "supplies", "repair", "replace", "other">>

Columns == {expenseColumns[i] : i \in 1..Len(expenseColumns)}

\* `${column}_formula`
FormulaField(column) == column \o "_formula"

\* The record renderExpensesTable shows for a unit that has none.
BlankExpense == [c \in Columns |-> <<>>]

\* A getValue without the defaults; C10 must tell it from getValue.
getValueWithoutDefault(value) == parseFloat(StripCommas(value))

\* getValue of calculateNetEarn: 0 for a missing, empty or unparseable value.
getValue(value) ==
    IF ~Truthy(value) THEN Zero
    ELSE LET num == parseFloat(StripCommas(value))
         IN  IF num.k = "nan" THEN Zero ELSE num

\* sales - rental - electricity - ... - other, left to right from column i.
RECURSIVE SubtractFrom(_, _, _)
SubtractFrom(acc, expense, i) ==
    IF i > Len(expenseColumns) THEN acc
    ELSE SubtractFrom(NumSub(acc, getValue(Get(expense, expenseColumns[i]))),
                      expense, i + 1)

calculateNetEarn(expense) ==
    ToFixed2(SubtractFrom(getValue(Get(expense, "sales")), expense, 2))

\* parseFloat(netEarn) < 0 ? 'negative' : 'positive'
NetEarnClass(netEarn) ==
    IF IsNegative(parseFloat(netEarn)) THEN "negative" ELSE "positive"

(***************************************************************************)
(* The table: the rows of #expenses-data, one per unit, each with one      *)
(* input per expense column and the net-earn cell.  dataset.displayValue   *)
(* (line 225) is written and never read; it is not part of the state.      *)
(***************************************************************************)
NewInput(expenses, unitId, unitExpense, column) ==
    [ value   |-> OrEmpty(Get(unitExpense, column)),
      formula |-> IF unitId \in DOMAIN expenses
                     /\ Truthy(Get(expenses[unitId], FormulaField(column)))
                  THEN expenses[unitId][FormulaField(column)]
                  ELSE Undefined,
      error   |-> FALSE ]

NewRow(expenses, unit) ==
    LET unitExpense == IF unit.id \in DOMAIN expenses
                       THEN expenses[unit.id] ELSE BlankExpense
        netEarn     == calculateNetEarn(unitExpense)
    IN  [ unitId     |-> unit.id,
          building   |-> unit.building,
          unitNumber |-> unit.unit_number,
          display    |-> "",
          inputs     |-> [c \in Columns |->
                             NewInput(expenses, unit.id, unitExpense, c)],
          netEarn    |-> netEarn,
          netClass   |-> NetEarnClass(netEarn) ]

renderExpensesTable(units, expenses) ==
    [i \in 1..Len(units) |-> NewRow(expenses, units[i])]

filterUnits(rows, building) ==
    [i \in 1..Len(rows) |->
        [rows[i] EXCEPT !.display =
            IF building = "all" \/ rows[i].building = building
            THEN "" ELSE "none"]]

\* An update of the text that leaves the class; C30 must tell it from
\* updateNetEarn.
updateNetEarnTextOnly(rows, expenses, unitId) ==
    LET expense == IF unitId \in DOMAIN expenses
                   THEN expenses[unitId] ELSE EmptyObject
        i       == IF \E k \in 1..Len(rows) : rows[k].unitId = unitId
                   THEN CHOOSE k \in 1..Len(rows) : rows[k].unitId = unitId
                   ELSE 0
    IN  IF i = 0 THEN rows
        ELSE [rows EXCEPT ![i].netEarn = calculateNetEarn(expense)]

\* document.getElementById(`net-earn-${unitId}`): the first row of the unit.
NetEarnRow(rows, unitId) ==
    IF \E i \in 1..Len(rows) : rows[i].unitId = unitId
    THEN CHOOSE i \in 1..Len(rows) :
            /\ rows[i].unitId = unitId
            /\ \A j \in 1..(i - 1) : rows[j].unitId # unitId
    ELSE 0

updateNetEarn(rows, expenses, unitId) ==
    LET expense == IF unitId \in DOMAIN expenses
                   THEN expenses[unitId] ELSE EmptyObject
        netEarn == calculateNetEarn(expense)
        i       == NetEarnRow(rows, unitId)
    IN  IF i = 0 THEN rows
        ELSE [rows EXCEPT ![i].netEarn = netEarn,
                          ![i].netClass = NetEarnClass(netEarn)]

(***************************************************************************)
(* exportToCsv                                                             *)
(***************************************************************************)
\* Lines 466-481: the values of a data row; each is written between double
\* quotes and the values are joined by commas (line 484).
CsvValues(unitName, expense) ==
    [ unit    |-> unitName,
      values  |-> [c \in Columns |-> OrEmpty(Get(expense, c))],
      netEarn |-> calculateNetEarn(expense) ]

\* Lines 460-463.
CsvLine(row, expenses) ==
    CsvValues(row.unitNumber,
              IF row.unitId \in DOMAIN expenses
              THEN expenses[row.unitId] ELSE EmptyObject)

\* Lines 455-485: the data rows, those of the rows from i on that are not
\* hidden.
RECURSIVE CsvLinesFrom(_, _, _)
CsvLinesFrom(rows, expenses, i) ==
    IF i > Len(rows) THEN <<>>
    ELSE (IF rows[i].display = "none" THEN <<>>
          ELSE <<CsvLine(rows[i], expenses)>>)
         \o CsvLinesFrom(rows, expenses, i + 1)

\* The file: the header row (line 452) and the data rows.
exportToCsv(rows, expenses) ==
    [exported |-> TRUE, lines |-> CsvLinesFrom(rows, expenses, 1)]

(***************************************************************************)

(* The analysis views: aggregates over the body of GET /api/expenses,      *)
(* units and expenses (unit id -> expense record).                         *)
(***************************************************************************)
\* x > y on numbers: false when either is NaN.
NumGreater(x, y) ==
    IF x.k = "nan" \/ y.k = "nan" THEN FALSE
    ELSE IF x.k = "inf" THEN x.s = 1 /\ ~(y.k = "inf" /\ y.s = 1)
    ELSE IF y.k = "inf" THEN y.s = -1
    ELSE x.s * x.n * y.d > y.s * y.n * x.d

\* x >= y on numbers: false when either is NaN.
NumAtLeast(x, y) ==
    IF x.k = "nan" \/ y.k = "nan" THEN FALSE ELSE ~NumGreater(y, x)

\* x === 0
IsExactlyZero(x) == IsZero(x)

\* x || 0 for a number x: 0 when x is NaN or a zero.
NumOrZero(x) == IF x.k = "nan" \/ IsZero(x) THEN Zero ELSE x

Hundred == Fin(1, 100, 1)

\* Math.round: the nearest integer, the larger one on a tie.
MathRound(x) ==
    IF x.k # "fin" THEN x
    ELSE IF (2 * x.s * x.n + x.d) \div (2 * x.d) < 0
         THEN Fin(-1, -((2 * x.s * x.n + x.d) \div (2 * x.d)), 1)
    ELSE IF x.s = -1 /\ 2 * x.n <= x.d THEN Fin(-1, 0, 1)
    ELSE Fin(1, (2 * x.s * x.n + x.d) \div (2 * x.d), 1)

\* apiData.units || [] and apiData.expenses || {}: every body of this model
\* has both.
UnitExpensesOf(data, unit) ==
    IF unit.id \in DOMAIN data.expenses THEN data.expenses[unit.id] ELSE EmptyObject

\* The value of the first option of #analysis-unit.
AllUnits == <<"a", "l", "l">>

\* units.filter(unit => unit.id == unitId), all of them for 'all': the id
\* is a number and unitId the text of an option.
RECURSIVE FilteredUnits(_, _)
FilteredUnits(units, unitId) ==
    IF units = <<>> THEN <<>>
    ELSE IF unitId = AllUnits \/ IntToChars(Head(units).id) = unitId
         THEN <<Head(units)>> \o FilteredUnits(Tail(units), unitId)
    ELSE FilteredUnits(Tail(units), unitId)

\* parseFloat(value || 0): 0 for a missing or empty value, NaN for a text
\* that is no number.
ParseOrZero(value) == IF Truthy(value) THEN parseFloat(value) ELSE Zero

\* if (value) amount += parseFloat(value) || 0
AddParsed(amount, value) ==
    IF Truthy(value) THEN NumAdd(amount, NumOrZero(parseFloat(value))) ELSE amount

\* The positions of keys in non-increasing order of key, equal keys in
\* their first order (Array.prototype.sort with (a, b) => b - a is stable).
RECURSIVE InsertIndex(_, _, _)
InsertIndex(order, keys, j) ==
    IF order = <<>> THEN <<j>>
    ELSE IF NumGreater(keys[j], keys[Head(order)]) THEN <<j>> \o order
    ELSE <<Head(order)>> \o InsertIndex(Tail(order), keys, j)

RECURSIVE DescendingOrder(_, _)
DescendingOrder(keys, n) ==
    IF n = 0 THEN <<>> ELSE InsertIndex(DescendingOrder(keys, n - 1), keys, n)

\* seq in the order given by the positions of order.
Permuted(seq, order) == [i \in 1..Len(order) |-> seq[order[i]]]

\* A percent change that is 0 whenever the old value is 0.
PercentChangeZeroBase(oldValue, newValue) ==
    IF IsZero(oldValue) THEN Zero
    ELSE NumMul(NumDiv(NumSub(newValue, oldValue), oldValue), Hundred)

\* calculatePercentChange (lines 1018-1024)
calculatePercentChange(oldValue, newValue) ==
    IF IsExactlyZero(oldValue)
    THEN (IF NumGreater(newValue, Zero) THEN Hundred ELSE Zero)
    ELSE NumMul(NumDiv(NumSub(newValue, oldValue), oldValue), Hundred)

\* The categories of lines 1039-1051, in their order: the name of column
\* expenseColumns[i + 1].
categoryNames ==
    <<"Rental", "Electricity", "Water", "Sewage", "Internet", "Cleaner",
      "Laundry", "Supplies", "Repair", "Replace", "Other">>

\* Lines 1056-1071 for one category: its amount over the units.
RECURSIVE CategoryAmount(_, _, _, _)
CategoryAmount(amount, units, data, column) ==
    IF units = <<>> THEN amount
    ELSE CategoryAmount(AddParsed(amount, Get(UnitExpensesOf(data, Head(units)), column)),
                        Tail(units), data, column)

Category(name, amount) == [name |-> name, amount |-> amount]

\* categories after the loop of lines 1056-1071.
CategoriesOf(units, data) ==
    [i \in 1..Len(categoryNames) |->
        Category(categoryNames[i],
                 CategoryAmount(Zero, units, data, expenseColumns[i + 1]))]

\* categories.filter(cat => cat.amount > 0)
RECURSIVE NonZeroCategories(_)
NonZeroCategories(categories) ==
    IF categories = <<>> THEN <<>>
    ELSE IF NumGreater(Head(categories).amount, Zero)
         THEN <<Head(categories)>> \o NonZeroCategories(Tail(categories))
    ELSE NonZeroCategories(Tail(categories))

\* reduce((sum, category) => sum + category.amount, 0)
RECURSIVE SumAmounts(_, _)
SumAmounts(sum, categories) ==
    IF categories = <<>> THEN sum
    ELSE SumAmounts(NumAdd(sum, Head(categories).amount), Tail(categories))

\* Lines 1080-1082.
WithPercentages(categories, total) ==
    [i \in 1..Len(categories) |->
        [ name       |-> categories[i].name,
          amount     |-> categories[i].amount,
          percentage |->
              MathRound(NumMul(NumDiv(categories[i].amount, total), Hundred)) ]]

AmountsOf(categories) == [i \in 1..Len(categories) |-> categories[i].amount]

\* The categories in the order of the columns.
InColumnOrder(categories) == categories

\* Lines 1084-1085.
SortedByAmount(categories) ==
    Permuted(categories, DescendingOrder(AmountsOf(categories), Len(categories)))

\* The top expense when no category is left (line 1088): it has no amount.
NoTopExpense == [name |-> "None", percentage |-> Zero]

\* Lines 1087-1100, on the sorted categories.
ExpenseData(total, categories, unitCount) ==
    [ total      |-> total,
      categories |-> categories,
      topExpense |-> IF Len(categories) > 0 THEN categories[1] ELSE NoTopExpense,
      avgPerUnit |-> IF unitCount > 0
                     THEN MathRound(NumDiv(total, Fin(1, unitCount, 1)))
                     ELSE Zero,
      unitCount  |-> unitCount ]

\* Lines 1076-1100, on the categories that are left.
Summarised(nonZeroCategories, total, unitCount) ==
    ExpenseData(total, SortedByAmount(WithPercentages(nonZeroCategories, total)),
                unitCount)

Totalled(nonZeroCategories, unitCount) ==
    Summarised(nonZeroCategories, SumAmounts(Zero, nonZeroCategories), unitCount)

ProcessFiltered(filteredUnits, apiData) ==
    Totalled(NonZeroCategories(CategoriesOf(filteredUnits, apiData)),
             Len(filteredUnits))

\* processExpenseData (lines 1028-1101)
processExpenseData(apiData, unitId) ==
    ProcessFiltered(FilteredUnits(apiData.units, unitId), apiData)

\* Lines 1254-1265: the sum of the eleven categories of a unit from column i.
RECURSIVE TotalExpenseFrom(_, _, _)
TotalExpenseFrom(sum, unitData, i) ==
    IF i > Len(expenseColumns) THEN sum
    ELSE TotalExpenseFrom(NumAdd(sum, ParseOrZero(Get(unitData, expenseColumns[i]))),
                          unitData, i + 1)

\* Lines 1250-1272.
UnitTotals(data) ==
    [i \in 1..Len(data.units) |->
        [ id            |-> data.units[i].id,
          unit_number   |-> data.units[i].unit_number,
          total_expense |->
              TotalExpenseFrom(ParseOrZero(Get(UnitExpensesOf(data, data.units[i]),
                                               "rental")),
                               UnitExpensesOf(data, data.units[i]), 3) ]]

\* unitExpenses.filter(unit => unit.total_expense > 0)
RECURSIVE NonZeroUnits(_)
NonZeroUnits(unitExpenses) ==
    IF unitExpenses = <<>> THEN <<>>
    ELSE IF NumGreater(Head(unitExpenses).total_expense, Zero)
         THEN <<Head(unitExpenses)>> \o NonZeroUnits(Tail(unitExpenses))
    ELSE NonZeroUnits(Tail(unitExpenses))

TotalsOf(unitExpenses) ==
    [i \in 1..Len(unitExpenses) |-> unitExpenses[i].total_expense]

\* The limit of line 1281.
TopUnitsLimit == 10

\* slice(0, 10)
FirstTen(sorted) ==
    IF Len(sorted) > TopUnitsLimit THEN SubSeq(sorted, 1, TopUnitsLimit) ELSE sorted

SortedTopUnits(nonZeroUnits) ==
    FirstTen(Permuted(nonZeroUnits,
                      DescendingOrder(TotalsOf(nonZeroUnits), Len(nonZeroUnits))))

\* calculateTopExpenseUnits (lines 1245-1282)
calculateTopExpenseUnits(data) == SortedTopUnits(NonZeroUnits(UnitTotals(data)))

\* Lines 1450-1467 for one column: total += parseFloat(unitExpenses.x || 0)
\* over the units.
RECURSIVE ColumnTotal(_, _, _, _)
ColumnTotal(total, units, data, column) ==
    IF units = <<>> THEN total
    ELSE ColumnTotal(NumAdd(total,
                            ParseOrZero(Get(UnitExpensesOf(data, Head(units)), column))),
                     Tail(units), data, column)

\* Lines 1471-1473: totalRental + totalElectricity + ... + totalOther, from
\* the total of column i on.
RECURSIVE ExpensesTotalFrom(_, _, _, _)
ExpensesTotalFrom(sum, units, data, i) ==
    IF i > Len(expenseColumns) THEN sum
    ELSE ExpensesTotalFrom(NumAdd(sum, ColumnTotal(Zero, units, data, expenseColumns[i])),
                           units, data, i + 1)

\* Lines 1493-1511: prevTotalExpenses += parseFloat(unitExpenses.x || 0) for
\* the eleven categories of every unit.
RECURSIVE PrevExpensesTotal(_, _, _)
PrevExpensesTotal(sum, units, data) ==
    IF units = <<>> THEN sum
    ELSE PrevExpensesTotal(TotalExpenseFrom(sum, UnitExpensesOf(data, Head(units)), 2),
                           Tail(units), data)

\* Lines 1517-1519: prev === 0 ? 0 : ((current - prev) / prev) * 100
PnLChange(prev, current) ==
    IF IsExactlyZero(prev) THEN Zero
    ELSE NumMul(NumDiv(NumSub(current, prev), prev), Hundred)

\* Lines 1470-1474 and 1514-1519 on the totals.
PnLFigures(totalRevenue, totalExpenses, prevTotalSales, prevTotalExpenses) ==
    [ totalRevenue      |-> totalRevenue,
      totalExpenses     |-> totalExpenses,
      netIncome         |-> NumSub(totalRevenue, totalExpenses),
      prevTotalSales    |-> prevTotalSales,
      prevTotalExpenses |-> prevTotalExpenses,
      prevNetIncome     |-> NumSub(prevTotalSales, prevTotalExpenses),
      revenueChange     |-> PnLChange(prevTotalSales, totalRevenue),
      expensesChange    |-> PnLChange(prevTotalExpenses, totalExpenses),
      incomeChange      |-> PnLChange(NumSub(prevTotalSales, prevTotalExpenses),
                                      NumSub(totalRevenue, totalExpenses)) ]

PnLOf(filteredUnits, currentData, filteredPrevUnits, prevData) ==
    PnLFigures(ColumnTotal(Zero, filteredUnits, currentData, "sales"),
               ExpensesTotalFrom(ColumnTotal(Zero, filteredUnits, currentData, "rental"),
                                 filteredUnits, currentData, 3),
               ColumnTotal(Zero, filteredPrevUnits, prevData, "sales"),
               PrevExpensesTotal(Zero, filteredPrevUnits, prevData))

\* updatePnLStatement (lines 1383-1565): the figures of the summary cards
\* when both fetches succeed.
updatePnLStatement(currentData, prevData, selectedUnit) ==
    PnLOf(FilteredUnits(currentData.units, selectedUnit), currentData,
          FilteredUnits(prevData.units, selectedUnit), prevData)

\* unitExpenses[month] || {}
MonthDataOf(unitExpenses, month) ==
    IF month \in DOMAIN unitExpenses THEN unitExpenses[month] ELSE EmptyObject

\* Lines 1887-1888 over the units.
RECURSIVE MonthRevenue(_, _, _, _)
MonthRevenue(sum, units, data, month) ==
    IF units = <<>> THEN sum
    ELSE MonthRevenue(
            NumAdd(sum,
                   ParseOrZero(Get(MonthDataOf(UnitExpensesOf(data, Head(units)), month),
                                   "sales"))),
            Tail(units), data, month)

\* Lines 1891-1902.
MonthDataExpenses(monthData) ==
    TotalExpenseFrom(ParseOrZero(Get(monthData, "rental")), monthData, 3)

\* Lines 1891-1904 over the units.
RECURSIVE MonthExpenses(_, _, _, _)
MonthExpenses(sum, units, data, month) ==
    IF units = <<>> THEN sum
    ELSE MonthExpenses(
            NumAdd(sum,
                   MonthDataExpenses(MonthDataOf(UnitExpensesOf(data, Head(units)), month))),
            Tail(units), data, month)

\* Line 1907 over the units.
RECURSIVE MonthProfit(_, _, _, _)
MonthProfit(sum, units, data, month) ==
    IF units = <<>> THEN sum
    ELSE MonthProfit(
            NumAdd(sum,
                   NumSub(ParseOrZero(Get(MonthDataOf(UnitExpensesOf(data, Head(units)),
                                                      month), "sales")),
                          MonthDataExpenses(MonthDataOf(UnitExpensesOf(data, Head(units)),
                                                        month)))),
            Tail(units), data, month)

Months == 1..12

ProcessedYear(unitsToProcess, data) ==
    [ revenue  |-> [month \in Months |-> MonthRevenue(Zero, unitsToProcess, data, month)],
      expenses |-> [month \in Months |-> MonthExpenses(Zero, unitsToProcess, data, month)],
      profit   |-> [month \in Months |-> MonthProfit(Zero, unitsToProcess, data, month)] ]

\* fetchMonthlyDataForYear (lines 1852-1918) on the body of
\* GET /api/expenses/yearly: what the promise resolves with.
fetchMonthlyDataForYear(data, unitId) ==
    ProcessedYear(FilteredUnits(data.units, unitId), data)

\* A change that is computed whenever the previous figure is not 0.
YoYChangeFromNonZero(previous, current) ==
    IF IsZero(previous) THEN Zero
    ELSE NumMul(NumDiv(NumSub(current, previous), previous), Hundred)

\* Lines 1933-1946.
YoYChange(previous, current) ==
    IF NumGreater(previous, Zero)
    THEN NumMul(NumDiv(NumSub(current, previous), previous), Hundred)
    ELSE Zero

\* Lines 1923-1946 on the six figures.
YoYCards(currentRevenue, currentExpenses, currentProfit, previousRevenue, previousExpenses, previousProfit) ==
    [ currentRevenue   |-> currentRevenue,
      currentExpenses  |-> currentExpenses,
      currentProfit    |-> currentProfit,
      previousRevenue  |-> previousRevenue,
      previousExpenses |-> previousExpenses,
      previousProfit   |-> previousProfit,
      revenueChange    |-> YoYChange(previousRevenue, currentRevenue),
      expensesChange   |-> YoYChange(previousExpenses, currentExpenses),
      profitChange     |-> YoYChange(previousProfit, currentProfit) ]

\* updateYoYComparisonCards (lines 1921-1965)
updateYoYComparisonCards(currentYearData, previousYearData, currentMonth) ==
    YoYCards(NumOrZero(currentYearData.revenue[currentMonth]),
             NumOrZero(currentYearData.expenses[currentMonth]),
             NumOrZero(currentYearData.profit[currentMonth]),
             NumOrZero(previousYearData.revenue[currentMonth]),
             NumOrZero(previousYearData.expenses[currentMonth]),
             NumOrZero(previousYearData.profit[currentMonth]))

\* Lines 2106-2116.
OtherExpenses(unitExpense) ==
    TotalExpenseFrom(ParseOrZero(Get(unitExpense, "electricity")), unitExpense, 4)

\* A return that is computed whatever the rental.
RoiOfAnyRental(netProfit, rental) == NumMul(NumDiv(netProfit, rental), Hundred)

\* Lines 2120-2124.
RoiOf(netProfit, rental) ==
    IF NumGreater(rental, Zero) THEN NumMul(NumDiv(netProfit, rental), Hundred)
    ELSE Zero

\* Lines 2126-2139 and 2163-2176.
Performance(roi) ==
    IF NumAtLeast(roi, Fin(1, 50, 1)) THEN "Excellent"
    ELSE IF NumAtLeast(roi, Fin(1, 20, 1)) THEN "Good"
    ELSE IF NumAtLeast(roi, Fin(1, 5, 1)) THEN "Average"
    ELSE "Poor"

RoiRow(unit_number, netProfit, rental, roi) ==
    [ unit_number |-> unit_number,
      netProfit   |-> netProfit,
      rental      |-> rental,
      roi         |-> roi,
      performance |-> Performance(roi) ]

RoiRowOf(unit_number, netProfit, rental) ==
    RoiRow(unit_number, netProfit, rental, RoiOf(netProfit, rental))

\* Lines 2099-2153 for one unit.
UnitRoi(unit, unitExpense) ==
    RoiRowOf(unit.unit_number,
             NumSub(NumSub(ParseOrZero(Get(unitExpense, "sales")),
                           ParseOrZero(Get(unitExpense, "rental"))),
                    OtherExpenses(unitExpense)),
             ParseOrZero(Get(unitExpense, "rental")))

\* totalNetProfit += netProfit (line 2156)
RECURSIVE SumNetProfit(_, _)
SumNetProfit(sum, roiRows) ==
    IF roiRows = <<>> THEN sum
    ELSE SumNetProfit(NumAdd(sum, Head(roiRows).netProfit), Tail(roiRows))

\* totalRental += rental (line 2157)
RECURSIVE SumRental(_, _)
SumRental(sum, roiRows) ==
    IF roiRows = <<>> THEN sum
    ELSE SumRental(NumAdd(sum, Head(roiRows).rental), Tail(roiRows))

\* The rows of #roi-analysis-tbody and the footer (lines 2159-2187).
RoiTable(roiRows) ==
    [ rows  |-> roiRows,
      total |-> RoiRowOf("All Units", SumNetProfit(Zero, roiRows),
                         SumRental(Zero, roiRows)) ]

RoiRows(filteredUnits, data) ==
    [i \in 1..Len(filteredUnits) |->
        UnitRoi(filteredUnits[i], UnitExpensesOf(data, filteredUnits[i]))]

\* updateROIAnalysis (lines 2053-2200): the table when the fetch succeeds.
updateROIAnalysis(data, selectedUnit) ==
    RoiTable(RoiRows(FilteredUnits(data.units, selectedUnit), data))

\* updateExpenseDisplay (lines 1146-1175): what it wrote to the cards.  Line
\* 1166 reads data.topExpense.amount.toLocaleString(), a TypeError when the
\* top expense has no amount, after the total, the change and the name of
\* the top expense were written: complete tells whether it returned.
updateExpenseDisplay(data, percentChange) ==
    [ total      |-> data.total,
      change     |-> percentChange,
      topExpense |-> data.topExpense.name,
      complete   |-> "amount" \in DOMAIN data.topExpense ]

(***************************************************************************)
(* The add-role form (templates: the permission checkboxes and their       *)
(* 'change' listeners)                                                     *)
(***************************************************************************)
Resources == {"complaints", "issues", "repairs", "replacements"}

ViewOf(resource) == "can_view_" \o resource

ManageOf(resource) == "can_manage_" \o resource

\* The checkboxes of the form (lines 19-72).
Permissions ==
    {ViewOf(r) : r \in Resources} \cup {ManageOf(r) : r \in Resources}
        \cup {"is_admin", "can_manage_users"}

\* The resources whose manage checkbox has a 'change' listener
\* (lines 88-104).
ListenedResources == {"complaints", "repairs", "replacements"}

\* The checkboxes the listener of is_admin checks (lines 109-115).
AdminImplies ==
    {ViewOf(r) : r \in ListenedResources}
        \cup {ManageOf(r) : r \in ListenedResources} \cup {"can_manage_users"}

\* The 'change' listener of a checkbox, if it has one, on the boxes after
\* the click.
ChangeListener(box, boxes) ==
    IF \E r \in ListenedResources : box = ManageOf(r) /\ boxes[box]
    THEN [b \in Permissions |->
             boxes[b] \/ \E r \in ListenedResources : box = ManageOf(r) /\ b = ViewOf(r)]
    ELSE IF box = "is_admin" /\ boxes[box]
    THEN [b \in Permissions |-> boxes[b] \/ b \in AdminImplies]
    ELSE boxes

(***************************************************************************)
(* The charts.  Whether `new Chart` refuses a canvas that holds a live     *)
(* chart is the library's choice (Chart.js refuses from version 3 on, with *)
(* 'Canvas is already in use'); the library is not part of the sources.    *)
(***************************************************************************)
Canvases ==
    {"expense-pie-chart", "top-units-chart", "yoy-trend-chart", "income-by-unit-chart"}

\* No chart was made: every handle is null or undefined (0).
NoCharts ==
    [ live   |-> [canvas \in Canvases |-> {}],
      handle |-> [canvas \in Canvases |-> 0],
      made   |-> 0,
      thrown |-> FALSE ]

\* if (handle instanceof Chart) handle.destroy()
DestroyChart(c, canvas) ==
    IF c.handle[canvas] # 0
    THEN [c EXCEPT !.live[canvas] = @ \ {c.handle[canvas]}]
    ELSE c

\* handle = new Chart(ctx, ...)
NewChart(c, canvas, refuses) ==
    IF refuses /\ c.live[canvas] # {}
    THEN [c EXCEPT !.thrown = TRUE]
    ELSE [c EXCEPT !.live[canvas] = @ \cup {c.made + 1},
                   !.handle[canvas] = c.made + 1,
                   !.made = @ + 1]

initializeExpenseChart(c, refuses) == NewChart(c, "expense-pie-chart", refuses)

renderTopUnitsChart(c, refuses) ==
    NewChart(DestroyChart(c, "top-units-chart"), "top-units-chart", refuses)

\* The chart of initializeYoYComparison.
initializeYoYChart(c, refuses) == NewChart(c, "yoy-trend-chart", refuses)

updateIncomeChart(c, refuses) ==
    NewChart(DestroyChart(c, "income-by-unit-chart"), "income-by-unit-chart", refuses)

(***************************************************************************)
(* The income table: currentIncomeSort and the click listeners of          *)
(* setupIncomeSorting.  The rows are not part of the state, only the sort  *)
(* updateIncomeTable was last called with.                                 *)
(***************************************************************************)
headerFields == <<"unitNumber", "salesIncome", "netProfit", "profitMargin">>

SortBy(field, direction) == [field |-> field, direction |-> direction]

\* let currentIncomeSort (line 2607), no listener, no table, no click yet.
NoIncome ==
    [ listeners |-> 0,
      sort      |-> SortBy("netProfit", "desc"),
      table     |-> SortBy("", ""),
      clicked   |-> [field |-> "", before |-> SortBy("", "")] ]

\* One click listener of a header (lines 2636-2650) on currentIncomeSort.
ClickListener(sort, field) ==
    IF sort.field = field
    THEN SortBy(field, IF sort.direction = "asc" THEN "desc" ELSE "asc")
    ELSE SortBy(field, "asc")

\* A click on a header runs each of its n listeners in turn.
RECURSIVE HeaderClicked(_, _, _)
HeaderClicked(sort, field, n) ==
    IF n = 0 THEN sort
    ELSE HeaderClicked(ClickListener(sort, field), field, n - 1)

(***************************************************************************)

(* State                                                                   *)
(***************************************************************************)
VARIABLES
    currentUnits,     \* this.currentUnits
    currentExpenses,  \* this.currentExpenses: unit id -> expense record
    rows,             \* the rows of #expenses-data
    focused,          \* <<row, column>> of the input that has focus, or <<>>
    editStart,        \* history: the last edit (the cell when it got focus,
                      \* whether text was typed, how the blur handler ended)
    monthFilter,      \* this.monthFilter.value as <<year, month>>
    buildingFilter,   \* this.buildingFilter.value
    loadingOverlay,   \* this.loadingOverlay.style.display
    saveMessage,      \* this.saveMessage: text, 'error' and 'show' classes
    fetches,          \* the requests in flight, a bag
    loadedPeriod,     \* history: the <<year, month>> of the request whose
                      \* records currentUnits and currentExpenses hold
    csvContent,       \* the file exportToCsv produced last
    expression,       \* the text handed to calculateFormula
    outcome,          \* what calculateFormula did with it
    expense,          \* the record handed to calculateNetEarn
    netEarnResult,    \* what calculateNetEarn returned for it
    apiData,          \* the body of GET /api/expenses for the analysed month
    prevData,         \* the body for the month (or year) it is compared with
    selectedUnit,     \* the value of #analysis-unit: 'all' or a unit id
    report,           \* what an analysis view computed from them
    analysis,         \* a run of updateAnalysis: where it is, the 'loading'
                      \* class, what is displayed, an uncaught error
    oldValue,         \* the arguments of calculatePercentChange
    newValue,
    percentChange,    \* what calculatePercentChange returned for them
    checked,          \* the add-role form: checkbox id -> checked
    page,             \* how far the DOMContentLoaded listeners have run
    charts,           \* the Chart instances: those alive on each canvas,
                      \* the global handle of each canvas, how many were made
    income            \* the income table: the click listeners on each
                      \* header, currentIncomeSort, the sort the table shows,
                      \* and as history the last header click

tableVars ==
    <<currentUnits, currentExpenses, rows, focused, editStart, monthFilter,
      buildingFilter, loadingOverlay, saveMessage, fetches, loadedPeriod,
      csvContent>>

formulaVars == <<expression, outcome>>

netEarnVars == <<expense, netEarnResult>>

dataVars == <<apiData, prevData, selectedUnit>>

changeVars == <<oldValue, newValue, percentChange>>

analysisVars == <<dataVars, report, analysis, changeVars>>

pageVars == <<checked, page, charts, income>>

vars ==
    <<currentUnits, currentExpenses, rows, focused, editStart, monthFilter,
      buildingFilter, loadingOverlay, saveMessage, fetches, loadedPeriod,
      csvContent, expression, outcome, expense, netEarnResult,
      apiData, prevData, selectedUnit, report, analysis,
      oldValue, newValue, percentChange,
      checked, page, charts, income>>

NoOutcome == [state |-> "none", value |-> <<>>, called |-> FALSE]

NoEdit ==
    [active |-> FALSE, cell |-> <<>>, value |-> Undefined, formula |-> Undefined,
     dataset |-> Undefined, netEarn |-> Undefined, typed |-> FALSE,
     branch |-> "none", result |-> "none"]

\* The records in memory came from no request for a month.
NoPeriod == <<0, 0>>

\* No file was exported yet.
NoCsv == [exported |-> FALSE, lines |-> <<>>]

\* The month the page opens with.
InitialMonth == <<2025, 5>>

\* The manager right after its construction: init() has called
\* loadExpensesData, whose request is in flight.
ExpensesRequest(period) ==
    [api |-> "expenses", year |-> period[1], month |-> period[2], type |-> ""]

TableConstructed ==
    /\ currentUnits = <<>>
    /\ currentExpenses = EmptyObject
    /\ rows = <<>>
    /\ focused = <<>>
    /\ editStart = NoEdit
    /\ monthFilter = InitialMonth
    /\ buildingFilter = "all"
    /\ loadingOverlay = "flex"
    /\ saveMessage = [text |-> "", error |-> FALSE, show |-> FALSE]
    /\ fetches = SetToBag({ExpensesRequest(InitialMonth)})
    /\ loadedPeriod = NoPeriod
    /\ csvContent = NoCsv

\* The add-role form as served and the expenses page before its
\* DOMContentLoaded listeners have run.
PageIdle ==
    /\ checked = [box \in Permissions |-> FALSE]
    /\ page = "loading"
    /\ charts = NoCharts
    /\ income = NoIncome

FormulaIdle ==
    /\ expression = <<>>
    /\ outcome = NoOutcome

NetEarnIdle ==
    /\ expense = EmptyObject
    /\ netEarnResult = Undefined

\* A body without units.
EmptyBody == [units |-> <<>>, expenses |-> EmptyObject]

NoReport == [view |-> "none"]

\* In place of a number that was not computed.
NotComputed == [k |-> "none", s |-> 1, n |-> 0, d |-> 1]

\* The cards before updateExpenseDisplay wrote to them.
NoDisplay ==
    [total |-> NotComputed, change |-> NotComputed, topExpense |-> "", complete |-> FALSE]

\* No run of updateAnalysis yet: pc is where the run is, loading the class
\* of .analysis-content, content what .analysis-content holds, topUnits the
\* display of .top-units-section and what its chart holds, uncaught whether
\* a promise of the run was rejected with no handler left.
NoAnalysis ==
    [ pc                 |-> "idle",
      loading            |-> FALSE,
      currentExpenseData |-> processExpenseData(EmptyBody, AllUnits),
      displayed          |-> NoDisplay,
      content            |-> "views",
      topUnits           |-> "initial",
      uncaught           |-> FALSE ]

DataIdle ==
    /\ apiData = EmptyBody
    /\ prevData = EmptyBody
    /\ selectedUnit = AllUnits

ChangeIdle ==
    /\ oldValue = Zero
    /\ newValue = Zero
    /\ percentChange = NotComputed

AnalysisIdle ==
    /\ DataIdle
    /\ ChangeIdle
    /\ report = NoReport
    /\ analysis = NoAnalysis

(***************************************************************************)
(* SpecFormula: calculateFormula applied to every text of at most MaxLen   *)
(* characters of FormulaChars, and to the texts of PastedExpressions.      *)
(***************************************************************************)
MaxLen == 4

FormulaChars == {"0", "1", "2", "+", "-", "*", "/", "(", ")", ".", " ", "a"}

PastedExpressions ==
    { <<"5", "-", "-", "3">>,
      <<"5", "+", "-", "3">>,
      <<"1", ")", "+", "(", "2">>,
      <<"2", "*", "(", "3", "+", "4", ")">>,
      <<"1", "/", "*", "2", "*", "/", "+", "3">>,
      <<"1", "-", "+", "-", "2">> }

InitFormula ==
    /\ FormulaIdle
    /\ TableConstructed
    /\ PageIdle
    /\ NetEarnIdle
    /\ AnalysisIdle

TypeExpression(c) ==
    /\ Len(expression) < MaxLen
    /\ expression' = Append(expression, c)
    /\ outcome' = NoOutcome
    /\ UNCHANGED <<tableVars, pageVars, netEarnVars, analysisVars>>

PasteExpression(t) ==
    /\ expression # t
    /\ expression' = t
    /\ outcome' = NoOutcome
    /\ UNCHANGED <<tableVars, pageVars, netEarnVars, analysisVars>>

Evaluate ==
    /\ outcome = NoOutcome
    /\ outcome' = calculateFormula(expression)
    /\ UNCHANGED <<expression, tableVars, pageVars, netEarnVars, analysisVars>>

NextFormula ==
    \/ \E c \in FormulaChars : TypeExpression(c)
    \/ \E t \in PastedExpressions : PasteExpression(t)
    \/ Evaluate

SpecFormula == InitFormula /\ [][NextFormula]_vars

(***************************************************************************)
(* SpecNetEarn: calculateNetEarn applied to every expense record that sets *)
(* at most MaxFields of the twelve columns to a text of NetEarnTexts, and  *)
(* to ExampleExpense.                                                      *)
(***************************************************************************)
MaxFields == 3

\* An empty value, an unparseable one, whole amounts, and an amount with a
\* thousands separator and a fraction.
NetEarnTexts ==
    { <<>>,
      <<"a">>,
      <<"1", "0", "0">>,
      <<"3", "0">>,
      <<"1", ",", "0", "0", "0", ".", "5">> }

\* {sales: "100", rental: "30", electricity: "10"}
ExampleExpense ==
    [c \in {"sales", "rental", "electricity"} |->
        CASE c = "sales" -> <<"1", "0", "0">>
          [] c = "rental" -> <<"3", "0">>
          [] c = "electricity" -> <<"1", "0">>]

NetEarnInputs ==
    {ExampleExpense} \cup
    UNION { [S -> NetEarnTexts] :
              S \in {T \in SUBSET Columns : Cardinality(T) <= MaxFields} }

InitNetEarn ==
    /\ expense \in NetEarnInputs
    /\ netEarnResult = Undefined
    /\ TableConstructed
    /\ PageIdle
    /\ FormulaIdle
    /\ AnalysisIdle

Calculate ==
    /\ netEarnResult = Undefined
    /\ netEarnResult' = calculateNetEarn(expense)
    /\ UNCHANGED <<expense, tableVars, pageVars, formulaVars, analysisVars>>

NextNetEarn == Calculate

SpecNetEarn == InitNetEarn /\ [][NextNetEarn]_vars

(***************************************************************************)
(* Spec: the expenses table under typing, focus, blur, reload and the      *)
(* load-from-bookings / load-from-issues buttons.  The user edits the      *)
(* cells of EditedColumns with the texts of Texts; the server answers      *)
(* from the response sets below.                                           *)
(***************************************************************************)
MaxInFlight == 1

EditedColumns == {"sales"}

Texts ==
    { <<"5">>,
      <<"=", "1", "+", "2">>,
      <<"=", "1", "+">>,
      <<"1", "+", "2">>,
      <<"1", "+">>,
      <<"=", "1", "/", "0">>,
      <<"1", "/", "0">> }

Unit1 == [id |-> 1, unit_number |-> "A-1", building |-> "A"]

FormulaExpenses ==
    (1 :> [k \in {"sales", "sales_formula", "rental"} |->
             CASE k = "sales" -> <<"3", ".", "0", "0">>
               [] k = "sales_formula" -> <<"=", "1", "+", "2">>
               [] k = "rental" -> <<"5">>])

\* Bodies of GET /api/expenses: a unit without records, a unit whose sales
\* cell holds a formula, and a body with neither units nor expenses.
ExpensesResponses ==
    { [units |-> <<Unit1>>, expenses |-> EmptyObject],
      [units |-> <<Unit1>>, expenses |-> FormulaExpenses],
      [units |-> <<>>, expenses |-> EmptyObject] }

\* Bodies of GET /api/get_units.
UnitsResponses == { <<Unit1>> }

\* data.revenues of GET /api/bookings/monthly_revenue and data.costs of
\* GET /api/issues/monthly_costs: unit id -> number.
AmountResponses == { EmptyObject, (1 :> Fin(1, 100, 1)) }

Request(api, type) ==
    [api |-> api, year |-> monthFilter[1], month |-> monthFilter[2], type |-> type]

UnitsRequest == [api |-> "get_units", year |-> 0, month |-> 0, type |-> ""]

InFlight(req) == BagIn(req, fetches)

Send(req) == fetches (+) SetToBag({req})

Receive(req) == fetches (-) SetToBag({req})

\* showSaveMessage(message, isError); its timer is SaveMessageTimeout.
showSaveMessage(message, isError) ==
    [text |-> message, error |-> isError, show |-> TRUE]

UNCHANGED_Others ==
    UNCHANGED <<formulaVars, netEarnVars, analysisVars, pageVars, loadedPeriod, csvContent>>

UNCHANGED_ButTable == UNCHANGED <<formulaVars, netEarnVars, analysisVars, pageVars, csvContent>>

\* The input of the cell, the unit of its row.
InputAt(cell) == rows[cell[1]].inputs[cell[2]]

UnitAt(cell) == rows[cell[1]].unitId

WithInput(cell, input) == [rows EXCEPT ![cell[1]].inputs[cell[2]] = input]

\* this.currentExpenses[unitId], created empty when missing.
EnsureRecord(expenses, unitId) ==
    IF unitId \in DOMAIN expenses THEN expenses
    ELSE Put(expenses, unitId, EmptyObject)

SetField(expenses, unitId, key, v) ==
    LET e == EnsureRecord(expenses, unitId)
    IN  [e EXCEPT ![unitId] = Put(e[unitId], key, v)]

\* The history of an edit: the cell when it got focus.
Snapshot(cell) ==
    LET unitId == UnitAt(cell)
        rec    == IF unitId \in DOMAIN currentExpenses
                  THEN currentExpenses[unitId] ELSE EmptyObject
    IN  [active  |-> TRUE,
         cell    |-> cell,
         value   |-> Get(rec, cell[2]),
         formula |-> Get(rec, FormulaField(cell[2])),
         dataset |-> InputAt(cell).formula,
         netEarn |-> rows[cell[1]].netEarn,
         typed   |-> FALSE,
         branch  |-> "none",
         result  |-> "none"]

\* A focus handler that leaves the displayed text; C9 must tell it from
\* FocusHandler.
FocusKeepsText(input) == input

\* The focus handler (lines 221-230): a retained formula is shown for editing.
FocusHandler(input) ==
    IF Truthy(input.formula) THEN [input EXCEPT !.value = input.formula]
    ELSE input

Focus(cell) ==
    /\ focused = <<>>
    /\ rows[cell[1]].display # "none"
    /\ rows' = WithInput(cell, FocusHandler(InputAt(cell)))
    /\ focused' = cell
    /\ editStart' = Snapshot(cell)
    /\ UNCHANGED <<currentUnits, currentExpenses, monthFilter, buildingFilter,
                   loadingOverlay, saveMessage, fetches>>
    /\ UNCHANGED_Others

\* The input handler (lines 209-218): the typed text is stored as it is.
InputHandler(expenses, unitId, column, text) ==
    SetField(expenses, unitId, column, text)

Input(text) ==
    /\ focused # <<>>
    /\ InputAt(focused).value # text
    /\ LET expenses == InputHandler(currentExpenses, UnitAt(focused), focused[2], text)
       IN  /\ currentExpenses' = expenses
           /\ rows' = updateNetEarn(
                         WithInput(focused, [InputAt(focused) EXCEPT !.value = text]),
                         expenses, UnitAt(focused))
    /\ editStart' = [editStart EXCEPT !.typed = TRUE]
    /\ UNCHANGED <<currentUnits, focused, monthFilter, buildingFilter,
                   loadingOverlay, saveMessage, fetches>>
    /\ UNCHANGED_Others

\* value.match(/[-+*/()]/)
HasOperator(value) ==
    \E i \in 1..Len(value) : value[i] \in {"-", "+", "*", "/", "(", ")"}

\* The branch of the blur handler taken for the trimmed text.
BlurBranch(value) ==
    IF value # <<>> /\ value[1] = "=" THEN "formula"
    ELSE IF value # <<>> /\ HasOperator(value) THEN "implicit"
    ELSE "plain"

\* What the blur handler leaves: the input, the expenses, whether
\* updateNetEarn ran, and for the history the branch taken and how
\* calculateFormula ended in it.
Blurred(input, expenses, updated, branch, result) ==
    [input |-> input, expenses |-> expenses, updated |-> updated,
     branch |-> branch, result |-> result]

\* Lines 238-267: the text starts with "="; result is calculateFormula's.
FormulaBlur(result, value, input, expenses, unitId, column) ==
    IF result.state = "thrown"
    THEN Blurred([input EXCEPT !.formula = value, !.error = TRUE], expenses, FALSE,
                 "formula", "thrown")
    ELSE Blurred([input EXCEPT !.formula = value, !.value = result.value],
                 SetField(SetField(expenses, unitId, column, result.value),
                          unitId, FormulaField(column), value),
                 TRUE, "formula", "returned")

\* delete record[`${column}_formula`] when it is truthy (lines 286-288).
DropFormula(expenses, unitId, column) ==
    IF Truthy(Get(expenses[unitId], FormulaField(column)))
    THEN [expenses EXCEPT ![unitId] = Delete(expenses[unitId], FormulaField(column))]
    ELSE expenses

\* delete dataset.formula when it is truthy (lines 272-274).
DropDataset(input) ==
    IF Truthy(input.formula) THEN [input EXCEPT !.formula = Undefined] ELSE input

\* Lines 268-298: the text holds an operator; result is calculateFormula's.
ImplicitBlur(result, input, expenses, unitId, column) ==
    IF result.state = "thrown"
    THEN Blurred([DropDataset(input) EXCEPT !.error = TRUE], expenses, FALSE,
                 "implicit", "thrown")
    ELSE Blurred([DropDataset(input) EXCEPT !.value = result.value],
                 DropFormula(SetField(expenses, unitId, column, result.value),
                             unitId, column),
                 TRUE, "implicit", "returned")

\* The blur handler on the trimmed text.
BlurOn(value, input, expenses, unitId, column) ==
    IF BlurBranch(value) = "formula"
    THEN FormulaBlur(calculateFormula(StripCommas(From(value, 2))),
                     value, input, expenses, unitId, column)
    ELSE IF BlurBranch(value) = "implicit"
    THEN ImplicitBlur(calculateFormula(StripCommas(value)),
                      input, expenses, unitId, column)
    ELSE Blurred(input, expenses, FALSE, "plain", "none")

\* The blur handler (lines 233-299).
BlurHandler(input, expenses, unitId, column) ==
    BlurOn(Trim(input.value), input, expenses, unitId, column)

BlurApply(after) ==
    /\ currentExpenses' = after.expenses
    /\ rows' = IF after.updated
               THEN updateNetEarn(WithInput(focused, after.input),
                                  after.expenses, UnitAt(focused))
               ELSE WithInput(focused, after.input)
    /\ editStart' = [editStart EXCEPT !.active = FALSE,
                                      !.branch = after.branch,
                                      !.result = after.result]

Blur ==
    /\ focused # <<>>
    /\ BlurApply(BlurHandler(InputAt(focused), currentExpenses,
                             UnitAt(focused), focused[2]))
    /\ focused' = <<>>
    /\ UNCHANGED <<currentUnits, monthFilter, buildingFilter,
                   loadingOverlay, saveMessage, fetches>>
    /\ UNCHANGED_Others

\* The timer of lines 264-266 and 294-296 removes 'calculation-error'.
CalculationErrorTimeout(cell) ==
    /\ InputAt(cell).error
    /\ rows' = WithInput(cell, [InputAt(cell) EXCEPT !.error = FALSE])
    /\ UNCHANGED <<currentUnits, currentExpenses, focused, editStart, monthFilter,
                   buildingFilter, loadingOverlay, saveMessage, fetches>>
    /\ UNCHANGED_Others

\* The timer of lines 516-518 removes 'show'.
SaveMessageTimeout ==
    /\ saveMessage.show
    /\ saveMessage' = [saveMessage EXCEPT !.show = FALSE]
    /\ UNCHANGED <<currentUnits, currentExpenses, rows, focused, editStart,
                   monthFilter, buildingFilter, loadingOverlay, fetches>>
    /\ UNCHANGED_Others

\* A button is clicked with the mouse: no input has focus then, and at most
\* MaxInFlight requests are in flight.
CanClick ==
    /\ focused = <<>>
    /\ BagCardinality(fetches) < MaxInFlight

\* After a response handler has rendered the table no input has focus.
Rendered(newRows) ==
    /\ rows' = newRows
    /\ focused' = <<>>
    /\ editStart' = NoEdit

\* loadExpensesData (lines 86-93), from the reload button.
Reload ==
    /\ CanClick
    /\ loadingOverlay' = "flex"
    /\ fetches' = Send(Request("expenses", ""))
    /\ UNCHANGED <<currentUnits, currentExpenses, rows, focused, editStart,
                   monthFilter, buildingFilter, saveMessage>>
    /\ UNCHANGED_Others

\* The month of #month-filter is changed (line 48): loadExpensesData
\* (lines 86-93) asks for the month now selected; what is in flight stays.
ChangeMonth(period) ==
    /\ focused = <<>>
    /\ BagCardinality(fetches) <= MaxInFlight
    /\ period # monthFilter
    /\ monthFilter' = period
    /\ loadingOverlay' = "flex"
    /\ fetches' = fetches (+) SetToBag({ExpensesRequest(period)})
    /\ UNCHANGED <<currentUnits, currentExpenses, rows, focused, editStart,
                   buildingFilter, saveMessage>>
    /\ UNCHANGED_Others

\* A response for a month that is no longer selected is dropped.
ExpensesLoadedIfSelected(req, data) ==
    /\ InFlight(req)
    /\ req.api = "expenses"
    /\ fetches' = Receive(req)
    /\ IF <<req.year, req.month>> = monthFilter
       THEN /\ currentUnits' = data.units
            /\ currentExpenses' = data.expenses
            /\ Rendered(filterUnits(renderExpensesTable(data.units, data.expenses),
                                    buildingFilter))
            /\ loadingOverlay' = "none"
            /\ loadedPeriod' = <<req.year, req.month>>
       ELSE UNCHANGED <<currentUnits, currentExpenses, rows, focused, editStart,
                        loadingOverlay, loadedPeriod>>
    /\ UNCHANGED <<monthFilter, buildingFilter, saveMessage>>
    /\ UNCHANGED_ButTable

\* Lines 95-119: the expenses arrive.
ExpensesLoaded(req, data) ==
    /\ InFlight(req)
    /\ req.api = "expenses"
    /\ fetches' = Receive(req)
    /\ currentUnits' = data.units
    /\ currentExpenses' = data.expenses
    /\ Rendered(filterUnits(renderExpensesTable(data.units, data.expenses),
                            buildingFilter))
    /\ loadingOverlay' = "none"
    /\ loadedPeriod' = <<req.year, req.month>>
    /\ UNCHANGED <<monthFilter, buildingFilter, saveMessage>>
    /\ UNCHANGED_ButTable

\* The failure of the request ends the load: no other request is sent.
ExpensesFailedWithoutFallback(req) ==
    /\ InFlight(req)
    /\ req.api = "expenses"
    /\ fetches' = Receive(req)
    /\ UNCHANGED <<currentUnits, currentExpenses, rows, focused, editStart,
                   monthFilter, buildingFilter, loadingOverlay, saveMessage>>
    /\ UNCHANGED_Others

\* Lines 120-124: the request fails and the units are asked for instead.
ExpensesFailed(req) ==
    /\ InFlight(req)
    /\ req.api = "expenses"
    /\ fetches' = Receive(req) (+) SetToBag({UnitsRequest})
    /\ UNCHANGED <<currentUnits, currentExpenses, rows, focused, editStart,
                   monthFilter, buildingFilter, loadingOverlay, saveMessage>>
    /\ UNCHANGED_Others

\* Lines 126-137.
UnitsLoaded(units) ==
    /\ InFlight(UnitsRequest)
    /\ fetches' = Receive(UnitsRequest)
    /\ currentUnits' = units
    /\ currentExpenses' = EmptyObject
    /\ Rendered(filterUnits(renderExpensesTable(units, EmptyObject), buildingFilter))
    /\ loadingOverlay' = "none"
    /\ loadedPeriod' = NoPeriod
    /\ UNCHANGED <<monthFilter, buildingFilter, saveMessage>>
    /\ UNCHANGED_ButTable

\* Lines 138-142.
UnitsFailed ==
    /\ InFlight(UnitsRequest)
    /\ fetches' = Receive(UnitsRequest)
    /\ loadingOverlay' = "none"
    /\ saveMessage' = showSaveMessage("Failed to load data. Please try again.", TRUE)
    /\ UNCHANGED <<currentUnits, currentExpenses, rows, focused, editStart,
                   monthFilter, buildingFilter>>
    /\ UNCHANGED_Others

\* The three load buttons (lines 58-79) and the head of their handlers
\* (lines 560-564, 608-612, 656-660).
LoadClick(api, type) ==
    /\ CanClick
    /\ loadingOverlay' = "flex"
    /\ fetches' = Send(Request(api, type))
    /\ UNCHANGED <<currentUnits, currentExpenses, rows, focused, editStart,
                   monthFilter, buildingFilter, saveMessage>>
    /\ UNCHANGED_Others

LoadSalesClick == LoadClick("monthly_revenue", "")

LoadRepairClick == LoadClick("monthly_costs", "repair")

LoadReplaceClick == LoadClick("monthly_costs", "replace")

\* The loops of lines 568-590, 616-638 and 664-686: each amount, two
\* decimals, is written into the column of its unit.
ApplyAmounts(expenses, amounts, column) ==
    [u \in DOMAIN expenses \cup DOMAIN amounts |->
        IF u \notin DOMAIN amounts THEN expenses[u]
        ELSE IF u \in DOMAIN expenses
             THEN Put(expenses[u], column, ToFixed2(amounts[u]))
        ELSE [BlankExpense EXCEPT ![column] = ToFixed2(amounts[u])]]

\* The column a load request fills.
LoadColumn(req) ==
    IF req.api = "monthly_revenue" THEN "sales" ELSE req.type

\* Lines 566-595, 614-643, 662-691: the amounts arrive; the table is
\* rendered again, without filterUnits.
AmountsLoaded(req, amounts) ==
    /\ InFlight(req)
    /\ req.api \in {"monthly_revenue", "monthly_costs"}
    /\ fetches' = Receive(req)
    /\ currentExpenses' = ApplyAmounts(currentExpenses, amounts, LoadColumn(req))
    /\ Rendered(renderExpensesTable(currentUnits, currentExpenses'))
    /\ loadingOverlay' = "none"
    /\ UNCHANGED <<currentUnits, monthFilter, buildingFilter, saveMessage>>
    /\ UNCHANGED_Others

LoadFailedMessage(req) ==
    IF req.api = "monthly_revenue"
    THEN "Failed to load booking revenues. Please try again."
    ELSE IF req.type = "repair"
    THEN "Failed to load repair costs. Please try again."
    ELSE "Failed to load replacement costs. Please try again."

\* Lines 596-600, 644-648, 692-696.
AmountsFailed(req) ==
    /\ InFlight(req)
    /\ req.api \in {"monthly_revenue", "monthly_costs"}
    /\ fetches' = Receive(req)
    /\ loadingOverlay' = "none"
    /\ saveMessage' = showSaveMessage(LoadFailedMessage(req), TRUE)
    /\ UNCHANGED <<currentUnits, currentExpenses, rows, focused, editStart,
                   monthFilter, buildingFilter>>
    /\ UNCHANGED_Others

\* The building of #building-filter is changed (line 49): filterUnits.
ChangeBuilding(building) ==
    /\ focused = <<>>
    /\ building # buildingFilter
    /\ buildingFilter' = building
    /\ rows' = filterUnits(rows, building)
    /\ UNCHANGED <<currentUnits, currentExpenses, focused, editStart, monthFilter,
                   loadingOverlay, saveMessage, fetches>>
    /\ UNCHANGED_Others

\* The export button is clicked (line 51): exportToCsv.
ExportClick ==
    /\ focused = <<>>
    /\ csvContent' = exportToCsv(rows, currentExpenses)
    /\ UNCHANGED <<currentUnits, currentExpenses, rows, focused, editStart,
                   monthFilter, buildingFilter, loadingOverlay, saveMessage,
                   fetches, loadedPeriod>>
    /\ UNCHANGED <<formulaVars, netEarnVars, analysisVars, pageVars>>

\* The copy of lines 412-420: every field of every record, formula fields
\* included.
CopyOfExpenses(expenses) ==
    [unitId \in DOMAIN expenses |->
        [field \in DOMAIN expenses[unitId] |-> expenses[unitId][field]]]

\* The POST of lines 423-429: the selected year and month and the copy.
\* `of` is history: the month of the request the copied records came from.
SaveRequest(expenses) ==
    [api |-> "save", year |-> monthFilter[1], month |-> monthFilter[2],
     type |-> "", body |-> CopyOfExpenses(expenses), of |-> loadedPeriod]

\* The save button is clicked (line 50); nothing in the code keeps it from
\* being clicked while a request is in flight.
saveExpensesData ==
    /\ focused = <<>>
    /\ BagCardinality(fetches) <= MaxInFlight
    /\ loadingOverlay' = "flex"
    /\ fetches' = Send(SaveRequest(currentExpenses))
    /\ UNCHANGED <<currentUnits, currentExpenses, rows, focused, editStart,
                   monthFilter, buildingFilter, saveMessage>>
    /\ UNCHANGED_Others

\* A save that also forgets the records in memory; C22 must tell it from
\* SaveSucceeded.
SaveSucceededAndCleared(req) ==
    /\ InFlight(req)
    /\ req.api = "save"
    /\ fetches' = Receive(req)
    /\ loadingOverlay' = "none"
    /\ saveMessage' = showSaveMessage("Data saved successfully", FALSE)
    /\ currentExpenses' = EmptyObject
    /\ UNCHANGED <<currentUnits, rows, focused, editStart,
                   monthFilter, buildingFilter>>
    /\ UNCHANGED_Others

\* Lines 437-440: the response is ok and its body is JSON.
SaveSucceeded(req) ==
    /\ InFlight(req)
    /\ req.api = "save"
    /\ fetches' = Receive(req)
    /\ loadingOverlay' = "none"
    /\ saveMessage' = showSaveMessage("Data saved successfully", FALSE)
    /\ UNCHANGED <<currentUnits, currentExpenses, rows, focused, editStart,
                   monthFilter, buildingFilter>>
    /\ UNCHANGED_Others

\* Lines 431-435 and 441-445: the request fails, the response is not ok or
\* its body is not JSON.
SaveFailed(req) ==
    /\ InFlight(req)
    /\ req.api = "save"
    /\ fetches' = Receive(req)
    /\ loadingOverlay' = "none"
    /\ saveMessage' = showSaveMessage("Failed to save data. Please try again.", TRUE)
    /\ UNCHANGED <<currentUnits, currentExpenses, rows, focused, editStart,
                   monthFilter, buildingFilter>>
    /\ UNCHANGED_Others

Cells == {<<r, c>> : r \in 1..Len(rows), c \in Columns}

Init ==
    /\ TableConstructed
    /\ PageIdle
    /\ FormulaIdle
    /\ NetEarnIdle
    /\ AnalysisIdle

Next ==
    \/ \E cell \in Cells : cell[2] \in EditedColumns /\ Focus(cell)
    \/ \E text \in Texts : Input(text)
    \/ Blur
    \/ \E cell \in Cells : CalculationErrorTimeout(cell)
    \/ SaveMessageTimeout
    \/ Reload
    \/ \E req \in BagToSet(fetches), data \in ExpensesResponses : ExpensesLoaded(req, data)
    \/ \E req \in BagToSet(fetches) : ExpensesFailed(req)
    \/ \E units \in UnitsResponses : UnitsLoaded(units)
    \/ UnitsFailed
    \/ LoadSalesClick
    \/ \E req \in BagToSet(fetches), amounts \in AmountResponses : AmountsLoaded(req, amounts)
    \/ \E req \in BagToSet(fetches) : AmountsFailed(req)

Spec == Init /\ [][Next]_vars

(***************************************************************************)
(* SpecPeriods: the month filter is changed while requests of              *)
(* loadExpensesData are in flight, at most MaxInFlight + 1 of them, and    *)
(* their responses arrive in any order.                                    *)
(***************************************************************************)
\* The months of #month-filter: the one the page opens with and the next.
Periods == {InitialMonth, <<InitialMonth[1], InitialMonth[2] + 1>>}

NextPeriods ==
    \/ \E period \in Periods : ChangeMonth(period)
    \/ Reload
    \/ \E req \in BagToSet(fetches), data \in ExpensesResponses : ExpensesLoaded(req, data)
    \/ \E req \in BagToSet(fetches) : ExpensesFailed(req)
    \/ \E units \in UnitsResponses : UnitsLoaded(units)
    \/ UnitsFailed

SpecPeriods == Init /\ [][NextPeriods]_vars

(***************************************************************************)
(* SpecSave: the table is edited, saved, reloaded and filled from the      *)
(* bookings while the month filter changes; a save or a month change may   *)
(* come while MaxInFlight requests are in flight.                          *)
(***************************************************************************)
\* What is typed: a formula, stored as text by the input handler and as its
\* result by the blur handler.
SaveTexts == { <<"=", "1", "+", "2">> }

NextSave ==
    \/ \E cell \in Cells : cell[2] \in EditedColumns /\ Focus(cell)
    \/ \E text \in SaveTexts : Input(text)
    \/ Blur
    \/ SaveMessageTimeout
    \/ saveExpensesData
    \/ \E req \in BagToSet(fetches) : SaveSucceeded(req)
    \/ \E req \in BagToSet(fetches) : SaveFailed(req)
    \/ \E period \in Periods : ChangeMonth(period)
    \/ Reload
    \/ \E req \in BagToSet(fetches), data \in ExpensesResponses : ExpensesLoaded(req, data)
    \/ \E req \in BagToSet(fetches) : ExpensesFailed(req)
    \/ \E units \in UnitsResponses : UnitsLoaded(units)
    \/ UnitsFailed
    \/ LoadSalesClick
    \/ \E req \in BagToSet(fetches), amounts \in AmountResponses : AmountsLoaded(req, amounts)
    \/ \E req \in BagToSet(fetches) : AmountsFailed(req)

SpecSave == Init /\ [][NextSave]_vars

(***************************************************************************)

(* SpecFilter: the table of two units in two buildings is edited, filtered *)
(* by building, filled from the bookings, reloaded and exported.  The      *)
(* timer of the save message runs in Spec and SpecSave.                    *)
(***************************************************************************)
Unit2 == [id |-> 2, unit_number |-> "B-1", building |-> "B"]

\* The values of #building-filter.
BuildingOptions == {"all", "A", "B"}

\* What is typed: a formula calculateFormula rejects.
FilterTexts == { <<"=", "1", "+">> }

\* Bodies of GET /api/expenses: both units, a record for the first.
FilterResponses ==
    { [units |-> <<Unit1, Unit2>>, expenses |-> FormulaExpenses] }

NextFilter ==
    \/ \E cell \in Cells : cell[2] \in EditedColumns /\ Focus(cell)
    \/ \E text \in FilterTexts : Input(text)
    \/ Blur
    \/ \E cell \in Cells : CalculationErrorTimeout(cell)
    \/ \E building \in BuildingOptions : ChangeBuilding(building)
    \/ ExportClick
    \/ Reload
    \/ \E req \in BagToSet(fetches), data \in FilterResponses : ExpensesLoaded(req, data)
    \/ \E req \in BagToSet(fetches) : ExpensesFailed(req)
    \/ \E units \in UnitsResponses : UnitsLoaded(units)
    \/ UnitsFailed
    \/ LoadSalesClick
    \/ \E req \in BagToSet(fetches), amounts \in AmountResponses : AmountsLoaded(req, amounts)
    \/ \E req \in BagToSet(fetches) : AmountsFailed(req)

SpecFilter == Init /\ [][NextFilter]_vars

(***************************************************************************)

(* SpecRoleForm: the checkboxes of the add-role form are clicked in any    *)
(* order.                                                                  *)
(***************************************************************************)
\* A click on a checkbox toggles it and then runs its 'change' listener.
ClickBox(box) ==
    /\ checked' = ChangeListener(box, [checked EXCEPT ![box] = ~checked[box]])
    /\ UNCHANGED <<page, charts, income>>
    /\ UNCHANGED <<tableVars, formulaVars, netEarnVars, analysisVars>>

NextRoleForm == \E box \in Permissions : ClickBox(box)

SpecRoleForm == Init /\ [][NextRoleForm]_vars

(***************************************************************************)
(* SpecPage: the DOMContentLoaded listeners of the expenses page run in    *)
(* the order they were registered; then the top-units chart and the income *)
(* view are refreshed, every fetch answered, and the headers of the income *)
(* table are clicked, until MaxCharts charts were made.                    *)
(***************************************************************************)
MaxCharts == 6

UNCHANGED_ButPage ==
    UNCHANGED <<checked, tableVars, formulaVars, netEarnVars, analysisVars>>

\* The listener of lines 821-826: initializeAnalysisTab (lines 829-858).
FirstAnalysisTabInit ==
    /\ page = "loading"
    /\ page' = "analysis"
    /\ \E refuses \in BOOLEAN : charts' = initializeExpenseChart(charts, refuses)
    /\ UNCHANGED income
    /\ UNCHANGED_ButPage

\* The listener of lines 1219-1224: initializeAnalysisTab once more.
SecondAnalysisTabInit ==
    /\ page = "analysis"
    /\ page' = "analysis again"
    /\ \E refuses \in BOOLEAN : charts' = initializeExpenseChart(charts, refuses)
    /\ UNCHANGED income
    /\ UNCHANGED_ButPage

\* The listener of lines 2013-2017: initializeYoYComparison; the listener
\* of lines 2696-2700 makes no chart.
YoYInit ==
    /\ page = "analysis again"
    /\ page' = "ready"
    /\ \E refuses \in BOOLEAN : charts' = initializeYoYChart(charts, refuses)
    /\ UNCHANGED income
    /\ UNCHANGED_ButPage

\* fetchTopExpenseUnits is answered (lines 1232-1236).
TopUnitsRendered ==
    /\ page = "ready"
    /\ charts.made < MaxCharts
    /\ \E refuses \in BOOLEAN : charts' = renderTopUnitsChart(charts, refuses)
    /\ UNCHANGED <<page, income>>
    /\ UNCHANGED_ButPage

\* updateIncomeByUnitAnalysis is answered (lines 2391-2452): the chart, the
\* table under the current sort, setupIncomeSorting.
IncomeLoaded ==
    /\ page = "ready"
    /\ charts.made < MaxCharts
    /\ \E refuses \in BOOLEAN : charts' = updateIncomeChart(charts, refuses)
    /\ income' = [income EXCEPT !.table = income.sort, !.listeners = @ + 1]
    /\ UNCHANGED page
    /\ UNCHANGED_ButPage

\* A header of the income table is clicked.
HeaderClick(index) ==
    /\ page = "ready"
    /\ income.listeners > 0
    /\ income' =
          [ listeners |-> income.listeners,
            sort      |-> HeaderClicked(income.sort, headerFields[index], income.listeners),
            table     |-> HeaderClicked(income.sort, headerFields[index], income.listeners),
            clicked   |-> [field |-> headerFields[index], before |-> income.sort] ]
    /\ UNCHANGED <<page, charts>>
    /\ UNCHANGED_ButPage

NextPage ==
    \/ FirstAnalysisTabInit
    \/ SecondAnalysisTabInit
    \/ YoYInit
    \/ TopUnitsRendered
    \/ IncomeLoaded
    \/ \E index \in 1..Len(headerFields) : HeaderClick(index)

SpecPage == Init /\ [][NextPage]_vars

(***************************************************************************)

(* SpecPercentChange: calculatePercentChange applied to every pair of the  *)
(* multiples of 25 up to MaxStep of them, of either sign, -0 among them.   *)
(***************************************************************************)
MaxStep == 4

ChangeValues ==
    {Fin(1, 25 * i, 1) : i \in 0..MaxStep} \cup {Fin(-1, 25 * i, 1) : i \in 0..MaxStep}

InitPercentChange ==
    /\ oldValue \in ChangeValues
    /\ newValue \in ChangeValues
    /\ percentChange = NotComputed
    /\ DataIdle
    /\ report = NoReport
    /\ analysis = NoAnalysis
    /\ TableConstructed
    /\ PageIdle
    /\ FormulaIdle
    /\ NetEarnIdle

ComputeChange ==
    /\ percentChange = NotComputed
    /\ percentChange' = calculatePercentChange(oldValue, newValue)
    /\ UNCHANGED <<oldValue, newValue, dataVars, report, analysis,
                   tableVars, pageVars, formulaVars, netEarnVars>>

NextPercentChange == ComputeChange

SpecPercentChange == InitPercentChange /\ [][NextPercentChange]_vars

(***************************************************************************)
(* SpecAnalysis: the analysis views applied to bodies of at most MaxUnits  *)
(* units whose records are drawn from UnitRecords, to a body of eleven     *)
(* units, and to the bodies of PrevBodies for the period compared with.    *)
(***************************************************************************)
MaxUnits == 2

UnitNumbers ==
    <<"A-1", "A-2", "A-3", "A-4", "A-5", "A-6", "A-7", "A-8", "A-9", "A-10", "A-11">>

AnalysisUnit(i) == [id |-> i, unit_number |-> UnitNumbers[i], building |-> "A"]

\* The record of the return-on-investment example.
RoiExample ==
    [c \in {"sales", "rental", "other"} |->
        CASE c = "sales" -> <<"1", "0", "0", "0">>
          [] c = "rental" -> <<"5", "0", "0">>
          [] c = "other" -> <<"1", "0", "0">>]

\* Records of a unit: the examples, zero amounts, a text that is no number,
\* a negative amount, sales only, an empty cell and a fraction, a return of
\* exactly 50 percent.
UnitRecords ==
    << ExampleExpense,
       RoiExample,
       [c \in {"rental", "water"} |-> IF c = "rental" THEN <<"0">> ELSE <<"1", "0">>],
       [c \in {"rental", "electricity"} |->
           IF c = "rental" THEN <<"a">> ELSE <<"1", "0">>],
       [c \in {"rental"} |-> <<"-", "5">>],
       [c \in {"sales"} |-> <<"5", "0">>],
       [c \in {"rental", "electricity", "water"} |->
           CASE c = "rental" -> <<"2">>
             [] c = "electricity" -> <<>>
             [] c = "water" -> <<"2", ".", "5">>],
       [c \in {"sales", "rental"} |-> IF c = "sales" THEN <<"a">> ELSE <<"3", "0">>],
       [c \in {"rental"} |-> <<"0">>],
       [c \in {"sales", "rental"} |-> IF c = "sales" THEN <<"7", "5">> ELSE <<"5", "0">>] >>

\* The body whose unit i has record UnitRecords[choice[i]], none for 0.
BodyOf(choice) ==
    [ units    |-> [i \in DOMAIN choice |-> AnalysisUnit(i)],
      expenses |-> [i \in {j \in DOMAIN choice : choice[j] # 0} |->
                       UnitRecords[choice[i]]] ]

\* Eleven units, unit i with a rental of i.
ElevenUnits ==
    [ units    |-> [i \in 1..(TopUnitsLimit + 1) |-> AnalysisUnit(i)],
      expenses |-> [i \in 1..(TopUnitsLimit + 1) |->
                       [c \in {"rental"} |-> IntToChars(i)]] ]

Bodies ==
    {ElevenUnits} \cup
    UNION { {BodyOf(choice) : choice \in [1..n -> 0..Len(UnitRecords)]} : n \in 0..MaxUnits }

PrevBodies ==
    { BodyOf(<<>>), BodyOf(<<1>>), BodyOf(<<5>>), BodyOf(<<6>>), BodyOf(<<8>>) }

\* The body of GET /api/expenses/yearly whose records of the month are
\* those of body.
YearBody(body, month) ==
    [ units    |-> body.units,
      expenses |-> [id \in DOMAIN body.expenses |-> (month :> body.expenses[id])] ]

\* The months of #analysis-month-year: the one with records and the next.
AnalysisMonths == {InitialMonth[2], InitialMonth[2] + 1}

InitAnalysis ==
    /\ apiData \in Bodies
    /\ prevData \in PrevBodies
    /\ selectedUnit \in {AllUnits} \cup {IntToChars(i) : i \in 1..MaxUnits}
    /\ report = NoReport
    /\ analysis = NoAnalysis
    /\ ChangeIdle
    /\ TableConstructed
    /\ PageIdle
    /\ FormulaIdle
    /\ NetEarnIdle

UNCHANGED_ButReport ==
    UNCHANGED <<dataVars, analysis, changeVars, tableVars, pageVars, formulaVars, netEarnVars>>

ExpenseBreakdown ==
    /\ report.view = "none"
    /\ report' = [view |-> "expenses",
                  data |-> processExpenseData(apiData, selectedUnit)]
    /\ UNCHANGED_ButReport

TopExpenseUnits ==
    /\ report.view = "none"
    /\ selectedUnit = AllUnits
    /\ report' = [view |-> "topUnits", units |-> calculateTopExpenseUnits(apiData)]
    /\ UNCHANGED_ButReport

PnLStatement ==
    /\ report.view = "none"
    /\ report' = [view |-> "pnl",
                  figures |-> updatePnLStatement(apiData, prevData, selectedUnit)]
    /\ UNCHANGED_ButReport

YoYReport(currentMonth, currentYearData, previousYearData) ==
    [ view             |-> "yoy",
      currentMonth     |-> currentMonth,
      currentYearData  |-> currentYearData,
      previousYearData |-> previousYearData,
      cards |-> updateYoYComparisonCards(currentYearData, previousYearData,
                                         currentMonth) ]

YoYComparison(currentMonth) ==
    /\ report.view = "none"
    /\ report' =
          YoYReport(currentMonth,
                    fetchMonthlyDataForYear(YearBody(apiData, InitialMonth[2]),
                                            selectedUnit),
                    fetchMonthlyDataForYear(YearBody(prevData, InitialMonth[2]),
                                            selectedUnit))
    /\ UNCHANGED_ButReport

ROIAnalysis ==
    /\ report.view = "none"
    /\ report' = [view |-> "roi", table |-> updateROIAnalysis(apiData, selectedUnit)]
    /\ UNCHANGED_ButReport

NextAnalysis ==
    \/ ExpenseBreakdown
    \/ TopExpenseUnits
    \/ PnLStatement
    \/ \E currentMonth \in AnalysisMonths : YoYComparison(currentMonth)
    \/ ROIAnalysis

SpecAnalysis == InitAnalysis /\ [][NextAnalysis]_vars

(***************************************************************************)
(* SpecUpdateAnalysis: runs of updateAnalysis.  The server holds apiData   *)
(* for the selected month and prevData for the month before; each fetch    *)
(* is answered with the body or fails, and an answer that is due arrives.  *)
(***************************************************************************)
\* Lines 985-993 and 999-1007: the display returned.
AfterDisplay(run, display) ==
    [run EXCEPT !.displayed = display,
                !.loading = FALSE,
                !.topUnits = IF selectedUnit = AllUnits THEN "block" ELSE "none",
                !.pc = IF selectedUnit = AllUnits THEN "topUnits" ELSE "done"]

\* updateExpenseDisplay threw in the handler of catch: the promise that
\* catch returns is rejected and nothing handles it.
Unhandled(run, display) ==
    [run EXCEPT !.displayed = display, !.uncaught = TRUE, !.pc = "done"]

\* The handler of the inner catch (lines 995-1007).
InnerCatch(run, display) ==
    IF display.complete THEN AfterDisplay(run, display) ELSE Unhandled(run, display)

\* The handler of the inner then (lines 973-994): an exception of
\* updateExpenseDisplay goes to the inner catch.
InnerThen(run, display) ==
    IF display.complete THEN AfterDisplay(run, display)
    ELSE InnerCatch(run, updateExpenseDisplay(run.currentExpenseData, NotComputed))

SmallBodies ==
    UNION { {BodyOf(choice) : choice \in [1..n -> 0..Len(UnitRecords)]} : n \in 0..1 }

InitUpdateAnalysis ==
    /\ apiData \in SmallBodies
    /\ prevData \in PrevBodies
    /\ selectedUnit \in {AllUnits} \cup {IntToChars(i) : i \in 1..MaxUnits}
    /\ report = NoReport
    /\ analysis = NoAnalysis
    /\ ChangeIdle
    /\ TableConstructed
    /\ PageIdle
    /\ FormulaIdle
    /\ NetEarnIdle

UNCHANGED_ButAnalysis ==
    UNCHANGED <<dataVars, report, changeVars, tableVars, pageVars, formulaVars, netEarnVars>>

\* Lines 943-963: the selects are read, 'loading' is added, the current
\* month is fetched.
StartAnalysis ==
    /\ analysis.pc \in {"idle", "done"}
    /\ analysis' = [analysis EXCEPT !.pc = "current", !.loading = TRUE,
                                    !.uncaught = FALSE]
    /\ UNCHANGED_ButAnalysis

\* Lines 965-970: the current month arrives, the month before is fetched.
CurrentLoaded ==
    /\ analysis.pc = "current"
    /\ analysis' = [analysis EXCEPT
                       !.currentExpenseData = processExpenseData(apiData, selectedUnit),
                       !.pc = "previous"]
    /\ UNCHANGED_ButAnalysis

\* Lines 1009-1014: the fetch of the current month fails.
CurrentFailed ==
    /\ analysis.pc = "current"
    /\ analysis' = [analysis EXCEPT !.loading = FALSE, !.content = "error",
                                    !.pc = "done"]
    /\ UNCHANGED_ButAnalysis

\* Lines 973-994: the month before arrives.
PreviousLoaded ==
    /\ analysis.pc = "previous"
    /\ analysis' =
          InnerThen(analysis,
                    updateExpenseDisplay(
                        analysis.currentExpenseData,
                        calculatePercentChange(
                            processExpenseData(prevData, selectedUnit).total,
                            analysis.currentExpenseData.total)))
    /\ UNCHANGED_ButAnalysis

\* Lines 995-1007: the fetch of the month before fails.
PreviousFailed ==
    /\ analysis.pc = "previous"
    /\ analysis' = InnerCatch(analysis,
                              updateExpenseDisplay(analysis.currentExpenseData,
                                                   NotComputed))
    /\ UNCHANGED_ButAnalysis

\* fetchTopExpenseUnits (lines 1227-1242): the body arrives and the chart
\* is rendered.
TopUnitsLoaded ==
    /\ analysis.pc = "topUnits"
    /\ analysis' = [analysis EXCEPT !.topUnits = "chart", !.pc = "done"]
    /\ UNCHANGED_ButAnalysis

\* Lines 1237-1241: its fetch fails.
TopUnitsFailed ==
    /\ analysis.pc = "topUnits"
    /\ analysis' = [analysis EXCEPT !.topUnits = "error", !.pc = "done"]
    /\ UNCHANGED_ButAnalysis

\* A fetch of the run is answered.
FetchCompletes ==
    \/ CurrentFailed
    \/ CurrentLoaded
    \/ PreviousFailed
    \/ PreviousLoaded
    \/ TopUnitsFailed
    \/ TopUnitsLoaded

NextUpdateAnalysis ==
    \/ StartAnalysis
    \/ FetchCompletes

SpecUpdateAnalysis ==
    InitUpdateAnalysis /\ [][NextUpdateAnalysis]_vars /\ WF_vars(FetchCompletes)

(***************************************************************************)
(* Properties.  The history editStart keeps the last edit until the table  *)
(* is rendered again or another cell gets focus, so what a commit did is   *)
(* a predicate on the state that follows it.                               *)
(***************************************************************************)
\* this.currentExpenses[unit] of the cell's row, empty when there is none.
StoredRecord(cell) ==
    IF UnitAt(cell) \in DOMAIN currentExpenses
    THEN currentExpenses[UnitAt(cell)] ELSE EmptyObject

\* this.currentExpenses[unit][column]
StoredValue(cell) == Get(StoredRecord(cell), cell[2])

\* this.currentExpenses[unit][`${column}_formula`]
StoredFormula(cell) == Get(StoredRecord(cell), FormulaField(cell[2]))

\* A number with two decimals: -?d+.dd
TwoDecimals(t) ==
    LET u == IF t # <<>> /\ t[1] = "-" THEN Tail(t) ELSE t
    IN  /\ Len(u) >= 4
        /\ u[Len(u) - 2] = "."
        /\ \A i \in 1..Len(u) : i # Len(u) - 2 => IsDigit(u[i])

\* What calculateFormula does with the body of the formula text f.
FormulaResult(f) == calculateFormula(StripCommas(From(f, 2)))

\* C1: after a commit whose evaluation throws, the stored value, the stored
\* column_formula and the input's dataset.formula are what they were when
\* the edit began.
C1_FailedCommitRestores ==
    editStart.result = "thrown" =>
        /\ StoredValue(editStart.cell) = editStart.value
        /\ StoredFormula(editStart.cell) = editStart.formula
        /\ InputAt(editStart.cell).formula = editStart.dataset

\* C2: every cell that is not being edited and has a column_formula stored
\* has, as its stored value, the two-decimal result of evaluating that
\* formula, and never the formula text.
C2_FormulaCellsHoldResult ==
    \A cell \in Cells :
        (cell # focused /\ Truthy(StoredFormula(cell))) =>
            /\ FormulaResult(StoredFormula(cell)).state = "returned"
            /\ StoredValue(cell) = FormulaResult(StoredFormula(cell)).value
            /\ TwoDecimals(StoredValue(cell))
            /\ StoredValue(cell) # StoredFormula(cell)

\* C3: after a text without a leading "=" and without an operator has been
\* committed, the cell retains no formula, neither as column_formula nor as
\* the input's dataset.formula.
C3_PlainCommitDropsFormula ==
    (/\ ~editStart.active
     /\ editStart.branch = "plain"
     /\ Trim(InputAt(editStart.cell).value) # <<>>) =>
        /\ ~Truthy(StoredFormula(editStart.cell))
        /\ ~Truthy(InputAt(editStart.cell).formula)

\* A digit divided by zero.
DividesByZero(e) ==
    Len(e) = 3 /\ IsDigit(e[1]) /\ e[2] = "/" /\ e[3] = "0"

NonFiniteTexts ==
    { <<"N", "a", "N">>, InfinityChars, <<"-">> \o InfinityChars }

\* C4: calculateFormula throws on a division by zero, and never returns a
\* non-finite result.
C4_DivisionByZeroThrows ==
    outcome.state # "none" =>
        /\ DividesByZero(expression) => outcome.state = "thrown"
        /\ outcome.state = "returned" => outcome.value \notin NonFiniteTexts

\* C5: for digits a and b, calculateFormula("a--b") returns a + b with two
\* decimals.
C5_DoubleMinusAdds ==
    (/\ outcome.state # "none"
     /\ Len(expression) = 4
     /\ IsDigit(expression[1])
     /\ expression[2] = "-"
     /\ expression[3] = "-"
     /\ IsDigit(expression[4])) =>
        /\ outcome.state = "returned"
        /\ outcome.value =
             ToFixed2(Fin(1, DigitVal(expression[1]) + DigitVal(expression[4]), 1))

\* The characters the validation admits, written out.
PermittedChars ==
    {"0", "1", "2", "3", "4", "5", "6", "7", "8", "9",
     "+", "-", "*", "/", "(", ")", ".", " "}

HasForeignChar(s) == \E i \in 1..Len(s) : s[i] \notin PermittedChars

\* C6: an expression that, once cleaned up, holds a character other than a
\* digit, + - * / ( ) . or white space makes calculateFormula throw, and
\* does not reach the dynamic evaluator.
C6_ForeignCharsRejected ==
    (outcome.state # "none" /\ HasForeignChar(CleanExpression(expression))) =>
        /\ outcome.state = "thrown"
        /\ ~outcome.called

C6_Witness ==
    /\ expression = <<"1", "+", "a">>
    /\ outcome.state = "thrown"
    /\ ~outcome.called

\* Whether the parentheses of e from position i match, depth of them open.
RECURSIVE ParenthesesMatch(_, _, _)
ParenthesesMatch(e, i, depth) ==
    IF i > Len(e) THEN depth = 0
    ELSE IF e[i] = "(" THEN ParenthesesMatch(e, i + 1, depth + 1)
    ELSE IF e[i] = ")" THEN depth > 0 /\ ParenthesesMatch(e, i + 1, depth - 1)
    ELSE ParenthesesMatch(e, i + 1, depth)

\* C7: calculateFormula throws on every expression whose parentheses do not
\* match.
C7_UnmatchedParenthesesRejected ==
    (outcome.state # "none" /\ ~ParenthesesMatch(expression, 1, 0)) =>
        outcome.state = "thrown"

\* C8: after the successful commit of a text that has an operator and no
\* leading "=", the cell stores a two-decimal result and retains no
\* formula, neither as column_formula nor as the input's dataset.formula.
C8_ImplicitStoresResultOnly ==
    (editStart.branch = "implicit" /\ editStart.result = "returned") =>
        /\ TwoDecimals(StoredValue(editStart.cell))
        /\ ~Truthy(StoredFormula(editStart.cell))
        /\ ~Truthy(InputAt(editStart.cell).formula)

\* The edit began on a cell that held the formula f, as column_formula and
\* as dataset.formula, with the result of f as its stored value.
HeldFormula(e) ==
    /\ Truthy(e.formula)
    /\ e.dataset = e.formula
    /\ FormulaResult(e.formula).state = "returned"
    /\ FormulaResult(e.formula).value = e.value

\* C9: a cell that holds a formula with its result shows the formula when it
\* gets focus, and a blur without typing evaluates the formula again and
\* leaves the stored value, the stored column_formula and the net earn of the
\* unit as they were.
C9_FocusThenBlurKeepsData ==
    (editStart.cell # <<>> /\ ~editStart.typed /\ HeldFormula(editStart)) =>
        IF editStart.active
        THEN InputAt(editStart.cell).value = editStart.formula
        ELSE /\ editStart.branch = "formula"
             /\ editStart.result = "returned"
             /\ StoredValue(editStart.cell) = editStart.value
             /\ StoredFormula(editStart.cell) = editStart.formula
             /\ InputAt(editStart.cell).formula = editStart.formula
             /\ InputAt(editStart.cell).value = editStart.value
             /\ rows[editStart.cell[1]].netEarn = editStart.netEarn
             /\ calculateNetEarn(StoredRecord(editStart.cell)) = editStart.netEarn

C9_Witness ==
    /\ editStart.cell # <<>>
    /\ ~editStart.active
    /\ ~editStart.typed
    /\ HeldFormula(editStart)
    /\ editStart.result = "returned"
    /\ StoredValue(editStart.cell) = <<"3", ".", "0", "0">>
    /\ StoredFormula(editStart.cell) = <<"=", "1", "+", "2">>

\* The amount a column contributes: 0 when it is missing, empty or not a
\* number.
Amount(e, column) ==
    IF column \notin DOMAIN e THEN Zero
    ELSE IF e[column] = <<>> THEN Zero
    ELSE IF parseFloat(StripCommas(e[column])).k = "nan" THEN Zero
    ELSE parseFloat(StripCommas(e[column]))

\* The sum of the amounts of columns i..12: the eleven categories when i = 2.
RECURSIVE SumFrom(_, _)
SumFrom(e, i) ==
    IF i > Len(expenseColumns) THEN Zero
    ELSE NumAdd(Amount(e, expenseColumns[i]), SumFrom(e, i + 1))

\* C10: calculateNetEarn returns sales minus the sum of the eleven other
\* categories, a missing, empty or unparseable value counting as 0; sales
\* 100, rental 30 and electricity 10 give 60.00.
C10_NetEarnIsSalesMinusCosts ==
    netEarnResult # Undefined =>
        /\ netEarnResult =
             ToFixed2(NumSub(Amount(expense, "sales"), SumFrom(expense, 2)))
        /\ expense = ExampleExpense => netEarnResult = <<"6", "0", ".", "0", "0">>

C10_Witness ==
    /\ expense = ExampleExpense
    /\ netEarnResult = <<"6", "0", ".", "0", "0">>

(***************************************************************************)
(* Properties of the analysis views.  The figures a claim expects are      *)
(* computed here from the bodies, unit by unit and column by column.       *)
(***************************************************************************)
\* The amount of a column of a record: 0 when it is missing, empty or not a
\* number.
PlainAmount(e, column) ==
    IF column \notin DOMAIN e THEN Zero
    ELSE IF e[column] = <<>> THEN Zero
    ELSE IF parseFloat(e[column]).k = "nan" THEN Zero
    ELSE parseFloat(e[column])

\* The sum of the amounts of columns i..12 of a record.
RECURSIVE PlainSumFrom(_, _)
PlainSumFrom(e, i) ==
    IF i > Len(expenseColumns) THEN Zero
    ELSE NumAdd(PlainAmount(e, expenseColumns[i]), PlainSumFrom(e, i + 1))

\* Every value of the record is empty or a number.
WellFormed(e) ==
    \A c \in DOMAIN e : e[c] = <<>> \/ parseFloat(e[c]).k = "fin"

Selected(unit, unitId) == unitId = AllUnits \/ IntToChars(unit.id) = unitId

RecordOfUnit(data, unit) ==
    IF unit.id \in DOMAIN data.expenses THEN data.expenses[unit.id] ELSE EmptyObject

SelectedUnits(data, unitId) == SelectSeq(data.units, LAMBDA u : Selected(u, unitId))

\* The sum of a column over units i.. of a sequence of units.
RECURSIVE PlainColumnSum(_, _, _, _)
PlainColumnSum(data, units, column, i) ==
    IF i > Len(units) THEN Zero
    ELSE NumAdd(PlainAmount(RecordOfUnit(data, units[i]), column),
                PlainColumnSum(data, units, column, i + 1))

\* The sum of the eleven categories over units i.. of a sequence of units.
RECURSIVE PlainExpensesSum(_, _, _)
PlainExpensesSum(data, units, i) ==
    IF i > Len(units) THEN Zero
    ELSE NumAdd(PlainSumFrom(RecordOfUnit(data, units[i]), 2),
                PlainExpensesSum(data, units, i + 1))

\* c = (q - p) / p * 100 for finite p # 0 and q, by cross-multiplication.
IsPercentChange(c, p, q) ==
    /\ c.k = "fin"
    /\ c.s * c.n * q.d * p.s * p.n = 100 * (q.s * q.n * p.d - p.s * p.n * q.d) * c.d

\* c = q / p * 100 for finite p # 0 and q.
IsPercentOf(c, p, q) ==
    /\ c.k = "fin"
    /\ c.s * c.n * q.d * p.s * p.n = 100 * q.s * q.n * p.d * c.d

\* C11: a value that is no number never makes an aggregate not a number:
\* in the category totals, the top units, the P&L totals, the ROI rows and
\* the year-over-year figures it counts as 0 while the other values count
\* as they are.
C11_MalformedValuesCountAsZero ==
    /\ report.view = "expenses" =>
          \A j \in DOMAIN report.data.categories :
              \E i \in DOMAIN categoryNames :
                  /\ categoryNames[i] = report.data.categories[j].name
                  /\ report.data.categories[j].amount =
                        PlainColumnSum(apiData, SelectedUnits(apiData, selectedUnit),
                                       expenseColumns[i + 1], 1)
    /\ report.view = "topUnits" =>
          \A i \in DOMAIN apiData.units :
              (/\ Len(apiData.units) <= TopUnitsLimit
               /\ NumGreater(PlainSumFrom(RecordOfUnit(apiData, apiData.units[i]), 2),
                             Zero))
              => \E j \in DOMAIN report.units :
                    /\ report.units[j].id = apiData.units[i].id
                    /\ report.units[j].total_expense =
                          PlainSumFrom(RecordOfUnit(apiData, apiData.units[i]), 2)
    /\ report.view = "pnl" =>
          /\ report.figures.totalRevenue =
                PlainColumnSum(apiData, SelectedUnits(apiData, selectedUnit), "sales", 1)
          /\ report.figures.totalExpenses =
                PlainExpensesSum(apiData, SelectedUnits(apiData, selectedUnit), 1)
    /\ report.view = "roi" =>
          /\ report.table.total.netProfit.k = "fin"
          /\ report.table.total.rental =
                PlainColumnSum(apiData, SelectedUnits(apiData, selectedUnit), "rental", 1)
    /\ report.view = "yoy" =>
          /\ report.currentYearData.revenue[InitialMonth[2]] =
                PlainColumnSum(apiData, SelectedUnits(apiData, selectedUnit), "sales", 1)
          /\ report.currentYearData.expenses[InitialMonth[2]] =
                PlainExpensesSum(apiData, SelectedUnits(apiData, selectedUnit), 1)

\* C12: processExpenseData returns a category exactly when its amount
\* summed over the filtered units is not zero; when every unit has a rental
\* of 0 there is no "Rental" category.
C12_CategoryListedIffNonZero ==
    report.view = "expenses" =>
        \A i \in DOMAIN categoryNames :
            (\E j \in DOMAIN report.data.categories :
                report.data.categories[j].name = categoryNames[i])
            <=> ~IsZero(PlainColumnSum(apiData, SelectedUnits(apiData, selectedUnit),
                                       expenseColumns[i + 1], 1))

\* The sum of the amounts of categories i.. of a list.
RECURSIVE SurvivingSum(_, _)
SurvivingSum(categories, i) ==
    IF i > Len(categories) THEN Zero
    ELSE NumAdd(categories[i].amount, SurvivingSum(categories, i + 1))

\* p is the whole number nearest to a / t * 100, the larger one on a tie,
\* for finite a and t > 0: p <= a / t * 100 + 1/2 < p + 1.
IsRoundedShare(p, a, t) ==
    /\ p.k = "fin" /\ p.d = 1
    /\ a.k = "fin" /\ t.k = "fin"
    /\ a.d * t.s * t.n > 0
    /\ 2 * p.s * p.n * (a.d * t.s * t.n)
          <= 2 * (100 * a.s * a.n * t.d) + a.d * t.s * t.n
    /\ 2 * (100 * a.s * a.n * t.d) + a.d * t.s * t.n
          < (2 * p.s * p.n + 2) * (a.d * t.s * t.n)

\* C13: the categories processExpenseData returns are in non-increasing
\* order of amount, the percentage of each is its amount over the sum of
\* the returned amounts times 100 rounded to the nearest whole number, and
\* the total is that sum.
C13_SortedWithRoundedShares ==
    report.view = "expenses" =>
        /\ \A j \in 1..(Len(report.data.categories) - 1) :
              NumAtLeast(report.data.categories[j].amount,
                         report.data.categories[j + 1].amount)
        /\ report.data.total = SurvivingSum(report.data.categories, 1)
        /\ \A j \in DOMAIN report.data.categories :
              IsRoundedShare(report.data.categories[j].percentage,
                             report.data.categories[j].amount,
                             SurvivingSum(report.data.categories, 1))

\* Water 2.5 comes before rental 2, with 56 and 44 percent of 4.5.
C13_Witness ==
    /\ report.view = "expenses"
    /\ Len(report.data.categories) = 2
    /\ report.data.categories[1].name = "Water"
    /\ report.data.categories[1].percentage = Fin(1, 56, 1)
    /\ report.data.categories[2].name = "Rental"
    /\ report.data.categories[2].percentage = Fin(1, 44, 1)
    /\ report.data.total = Fin(1, 9, 2)

\* C14: calculatePercentChange(previous, current) is
\* (current - previous) / previous * 100 when previous is not 0; when
\* previous is 0 it is 100 for a current above 0 and 0 otherwise:
\* (0, 50) gives 100, (0, 0) gives 0, (100, 50) gives -50.
C14_PercentChange ==
    percentChange # NotComputed =>
        /\ ~IsZero(oldValue) => IsPercentChange(percentChange, oldValue, newValue)
        /\ IsZero(oldValue) =>
              percentChange =
                  (IF newValue.s * newValue.n > 0 THEN Fin(1, 100, 1) ELSE Fin(1, 0, 1))
        /\ (IsZero(oldValue) /\ newValue = Fin(1, 50, 1)) => percentChange = Fin(1, 100, 1)
        /\ (IsZero(oldValue) /\ IsZero(newValue)) => percentChange = Fin(1, 0, 1)
        /\ (oldValue = Fin(1, 100, 1) /\ newValue = Fin(1, 50, 1))
              => percentChange = Fin(-1, 50, 1)

C14_Witness ==
    /\ oldValue = Fin(1, 0, 1)
    /\ newValue = Fin(1, 50, 1)
    /\ percentChange = Fin(1, 100, 1)

\* C15: the revenue, expenses and net income changes of the P&L summary
\* are each calculatePercentChange of the previous and the current figure,
\* also when the previous figure is 0.
C15_PnLChangesArePercentChanges ==
    report.view = "pnl" =>
        /\ report.figures.revenueChange =
              calculatePercentChange(report.figures.prevTotalSales,
                                     report.figures.totalRevenue)
        /\ report.figures.expensesChange =
              calculatePercentChange(report.figures.prevTotalExpenses,
                                     report.figures.totalExpenses)
        /\ report.figures.incomeChange =
              calculatePercentChange(report.figures.prevNetIncome,
                                     report.figures.netIncome)

\* The change of a year-over-year card from its two figures.
IsYoYChange(change, previous, current) ==
    IF previous.k = "fin" /\ previous.s * previous.n > 0
    THEN IsPercentChange(change, previous, current)
    ELSE change = Fin(1, 0, 1)

\* C16: on the year-over-year cards a change is
\* (current - previous) / previous * 100 when previous is above 0 and
\* exactly 0 otherwise, and the profit of a month of either year is its
\* revenue minus its expenses.
C16_YoYChanges ==
    report.view = "yoy" =>
        /\ \A month \in Months :
              /\ report.currentYearData.profit[month] =
                    NumSub(report.currentYearData.revenue[month],
                           report.currentYearData.expenses[month])
              /\ report.previousYearData.profit[month] =
                    NumSub(report.previousYearData.revenue[month],
                           report.previousYearData.expenses[month])
        /\ IsYoYChange(report.cards.revenueChange, report.cards.previousRevenue,
                       report.cards.currentRevenue)
        /\ IsYoYChange(report.cards.expensesChange, report.cards.previousExpenses,
                       report.cards.currentExpenses)
        /\ IsYoYChange(report.cards.profitChange, report.cards.previousProfit,
                       report.cards.currentProfit)

\* Revenue went from 50 to 100, expenses from 0 to 40, profit from 50 to 60.
C16_Witness ==
    /\ report.view = "yoy"
    /\ report.currentMonth = InitialMonth[2]
    /\ report.cards.previousRevenue = Fin(1, 50, 1)
    /\ report.cards.currentRevenue = Fin(1, 100, 1)
    /\ report.cards.revenueChange = Fin(1, 100, 1)
    /\ report.cards.previousExpenses = Fin(1, 0, 1)
    /\ report.cards.currentExpenses = Fin(1, 40, 1)
    /\ report.cards.expensesChange = Fin(1, 0, 1)
    /\ report.cards.profitChange = Fin(1, 20, 1)

\* C17: calculateTopExpenseUnits returns the units whose total over the
\* eleven categories is not exactly 0, in non-increasing order of total,
\* cut to the first 10: a unit with a total that is not 0 is left out only
\* when 10 units with totals at least as large are returned.
C17_TopUnitsAreTheNonZeroTotals ==
    report.view = "topUnits" =>
        /\ Len(report.units) <= TopUnitsLimit
        /\ \A j \in DOMAIN report.units : ~IsZero(report.units[j].total_expense)
        /\ \A j \in 1..(Len(report.units) - 1) :
              NumAtLeast(report.units[j].total_expense,
                         report.units[j + 1].total_expense)
        /\ \A i \in DOMAIN apiData.units :
              (/\ WellFormed(RecordOfUnit(apiData, apiData.units[i]))
               /\ ~IsZero(PlainSumFrom(RecordOfUnit(apiData, apiData.units[i]), 2)))
              => \/ \E j \in DOMAIN report.units :
                       /\ report.units[j].id = apiData.units[i].id
                       /\ report.units[j].total_expense =
                             PlainSumFrom(RecordOfUnit(apiData, apiData.units[i]), 2)
                 \/ /\ Len(report.units) = TopUnitsLimit
                    /\ \A j \in DOMAIN report.units :
                          NumAtLeast(report.units[j].total_expense,
                                     PlainSumFrom(RecordOfUnit(apiData, apiData.units[i]),
                                                  2))

\* The tier of a return.
Tier(roi) ==
    IF roi.s * roi.n >= 50 * roi.d THEN "Excellent"
    ELSE IF roi.s * roi.n >= 20 * roi.d THEN "Good"
    ELSE IF roi.s * roi.n >= 5 * roi.d THEN "Average"
    ELSE "Poor"

\* A row of the ROI table against the net profit and rental it is about.
IsRoiRow(row, netProfit, rental) ==
    /\ row.netProfit = netProfit
    /\ row.rental = rental
    /\ IF rental.s * rental.n > 0 THEN IsPercentOf(row.roi, rental, netProfit)
       ELSE row.roi = Fin(1, 0, 1)
    /\ row.roi.k = "fin"
    /\ row.performance = Tier(row.roi)

\* The net profit of a record: sales minus rental minus the ten others.
PlainNetProfit(e) ==
    NumSub(NumSub(PlainAmount(e, "sales"), PlainAmount(e, "rental")), PlainSumFrom(e, 3))

RECURSIVE PlainNetProfitSum(_, _, _)
PlainNetProfitSum(data, units, i) ==
    IF i > Len(units) THEN Zero
    ELSE NumAdd(PlainNetProfit(RecordOfUnit(data, units[i])),
                PlainNetProfitSum(data, units, i + 1))

\* C18: in the ROI table the net profit of a unit is its sales minus its
\* rental minus the sum of the ten other categories, its return is net
\* profit over rental times 100 when the rental is above 0 and 0
\* otherwise, the tier is Excellent from 50, Good from 20, Average from 5
\* and Poor below, and the "All Units" row is computed the same way from
\* the summed net profit and the summed rental; sales 1000, rental 500 and
\* other 100 give 400, 80 and Excellent.
C18_RoiRows ==
    report.view = "roi" =>
        /\ Len(report.table.rows) = Len(SelectedUnits(apiData, selectedUnit))
        /\ \A i \in DOMAIN report.table.rows :
              WellFormed(RecordOfUnit(apiData, SelectedUnits(apiData, selectedUnit)[i]))
              => /\ IsRoiRow(report.table.rows[i],
                             PlainNetProfit(RecordOfUnit(apiData,
                                 SelectedUnits(apiData, selectedUnit)[i])),
                             PlainAmount(RecordOfUnit(apiData,
                                 SelectedUnits(apiData, selectedUnit)[i]), "rental"))
                 /\ RecordOfUnit(apiData, SelectedUnits(apiData, selectedUnit)[i])
                       = RoiExample
                    => /\ report.table.rows[i].netProfit = Fin(1, 400, 1)
                       /\ report.table.rows[i].roi = Fin(1, 80, 1)
                       /\ report.table.rows[i].performance = "Excellent"
        /\ (\A i \in DOMAIN report.table.rows :
               WellFormed(RecordOfUnit(apiData, SelectedUnits(apiData, selectedUnit)[i])))
           => IsRoiRow(report.table.total,
                       PlainNetProfitSum(apiData, SelectedUnits(apiData, selectedUnit), 1),
                       PlainColumnSum(apiData, SelectedUnits(apiData, selectedUnit),
                                      "rental", 1))

\* The example unit and a unit with a rental of 0: 80 percent and 0 percent,
\* 400 over 500 in the "All Units" row.
C18_Witness ==
    /\ report.view = "roi"
    /\ Len(report.table.rows) = 2
    /\ report.table.rows[1].roi = Fin(1, 80, 1)
    /\ report.table.rows[1].performance = "Excellent"
    /\ report.table.rows[2].rental = Fin(1, 0, 1)
    /\ report.table.rows[2].netProfit = Fin(-1, 10, 1)
    /\ report.table.rows[2].roi = Fin(1, 0, 1)
    /\ report.table.rows[2].performance = "Poor"
    /\ report.table.total.netProfit = Fin(1, 390, 1)
    /\ report.table.total.roi = Fin(1, 78, 1)

\* C20: every run of updateAnalysis whose fetches complete removes
\* 'loading' in the end and raises no uncaught error, also when the month
\* has no expense data: the category list is empty and the top expense is
\* {name: "None", percentage: 0}.
C20_LoadingIsRemoved ==
    /\ [](~analysis.uncaught)
    /\ analysis.loading ~> ~analysis.loading

\* C19: a request of loadExpensesData that is in flight when the month is
\* changed is not cancelled, and its response is applied whatever month is
\* selected when it arrives: when the response for the earlier month
\* arrives last, currentUnits and currentExpenses hold the records of a
\* month that is not the selected one after all responses have arrived.
C19_StaleResponseIsApplied ==
    [][ \A req \in BagToSet(fetches) :
           /\ monthFilter' # monthFilter
                 => CopiesIn(req, fetches') >= CopiesIn(req, fetches)
           /\ (/\ req.api = "expenses"
               /\ CopiesIn(req, fetches') < CopiesIn(req, fetches)
               /\ CopiesIn(UnitsRequest, fetches') = CopiesIn(UnitsRequest, fetches))
                 => /\ loadedPeriod' = <<req.year, req.month>>
                    /\ \E data \in ExpensesResponses :
                          /\ currentUnits' = data.units
                          /\ currentExpenses' = data.expenses ]_vars

\* Every response has arrived, none was a failure, and the records are
\* those of the month the page opened with while the next month is
\* selected: the response for the opening month arrived last.
C19_Witness ==
    /\ fetches = EmptyBag
    /\ saveMessage.text = ""
    /\ monthFilter # InitialMonth
    /\ loadedPeriod = InitialMonth
    /\ loadingOverlay = "none"

\* The step answers a request of the kind of req.
Answered(req) == CopiesIn(req, fetches') < CopiesIn(req, fetches)

\* The step sends a request of the kind of req.
Sent(req) == CopiesIn(req, fetches') = CopiesIn(req, fetches) + 1

\* C21: a GET expenses request that is answered is either applied or, when
\* it failed, followed by GET get_units with nothing else changed; when
\* get_units is answered the loading overlay is hidden, and either
\* currentUnits is the returned list and currentExpenses is empty, or both
\* keep their values and the error message is shown.
C21_FailedLoadFallsBack ==
    [][ /\ \A req \in BagToSet(fetches) :
              (req.api = "expenses" /\ Answered(req))
                 => \/ /\ Sent(UnitsRequest)
                       /\ UNCHANGED <<currentUnits, currentExpenses, rows,
                                      loadingOverlay, saveMessage>>
                    \/ /\ ~Sent(UnitsRequest)
                       /\ loadingOverlay' = "none"
                       /\ \E data \in ExpensesResponses :
                             /\ currentUnits' = data.units
                             /\ currentExpenses' = data.expenses
        /\ Answered(UnitsRequest)
              => /\ loadingOverlay' = "none"
                 /\ \/ /\ currentUnits' \in UnitsResponses
                       /\ currentExpenses' = EmptyObject
                       /\ saveMessage' = saveMessage
                    \/ /\ UNCHANGED <<currentUnits, currentExpenses, rows>>
                       /\ saveMessage' =
                             [text  |-> "Failed to load data. Please try again.",
                              error |-> TRUE, show |-> TRUE] ]_vars

\* Both requests failed after records had been loaded with a formula in
\* them: the records are still in memory, the message is shown and the
\* overlay is hidden.
C21_Witness ==
    /\ fetches = EmptyBag
    /\ saveMessage.text = "Failed to load data. Please try again."
    /\ saveMessage.show
    /\ currentUnits = <<Unit1>>
    /\ currentExpenses = FormulaExpenses
    /\ loadingOverlay = "none"

\* The step sends a POST of saveExpensesData.
SendsSave == \E req \in BagToSet(fetches') : req.api = "save" /\ Sent(req)

\* The step answers a POST of saveExpensesData.
AnswersSave == \E req \in BagToSet(fetches) : req.api = "save" /\ Answered(req)

\* C22: a POST is sent by saveExpensesData only, not by typing, by a blur,
\* by a load from the bookings or by a reload, and the steps of
\* saveExpensesData, the click and either answer, leave currentUnits and
\* currentExpenses as they are.
C22_EditsAreVolatileUntilSaved ==
    [][ /\ SendsSave => saveExpensesData
        /\ (SendsSave \/ AnswersSave)
              => UNCHANGED <<currentUnits, currentExpenses>> ]_vars

\* A formula was typed and committed and the save succeeded: the result and
\* the formula are still in memory.
C22_Witness ==
    /\ fetches = EmptyBag
    /\ saveMessage.text = "Data saved successfully"
    /\ 1 \in DOMAIN currentExpenses
    /\ Get(currentExpenses[1], "sales_formula") = <<"=", "1", "+", "2">>
    /\ Get(currentExpenses[1], "sales") = <<"3", ".", "0", "0">>
    /\ loadedPeriod = NoPeriod

\* C28: every POST of saveExpensesData in flight carries, under its year
\* and month, records that came from the request for that same month (or
\* from no request for a month: typed into an empty table).
C28_PostCarriesItsOwnPeriod ==
    \A req \in BagToSet(fetches) :
        (req.api = "save" /\ req.body # EmptyObject)
           => req.of \in {NoPeriod, <<req.year, req.month>>}

\* C29: the loading overlay is shown as long as a request is in flight.
C29_OverlayShownWhileInFlight ==
    fetches # EmptyBag => loadingOverlay = "flex"

\* The row is shown.
Visible(row) == row.display # "none"

\* A text that is a number: digits with at most a sign and a point.
NumericText(t) ==
    /\ t # <<>>
    /\ \A i \in 1..Len(t) : IsDigit(t[i]) \/ t[i] \in {".", "-"}
    /\ parseFloat(t).k = "fin"

\* C27: a row is shown if and only if the building filter is 'all' or the
\* building of the row.
C27_VisibleIffFilterMatches ==
    \A i \in 1..Len(rows) :
        Visible(rows[i])
           <=> (buildingFilter = "all" \/ rows[i].building = buildingFilter)

\* C23: the file exportToCsv writes has exactly one data row for each row
\* of the table that is shown and none for a hidden row, and each category
\* field of a data row is empty or a number, never formula text.
C23_ExportsVisibleRowsWithNumbers ==
    [][ csvContent' # csvContent =>
          /\ Len(csvContent'.lines) =
                Cardinality({i \in 1..Len(rows) : Visible(rows[i])})
          /\ \A i \in 1..Len(rows) :
                Visible(rows[i]) <=>
                   \E k \in 1..Len(csvContent'.lines) :
                      csvContent'.lines[k].unit = rows[i].unitNumber
          /\ \A k \in 1..Len(csvContent'.lines), c \in Columns :
                \/ csvContent'.lines[k].values[c] = <<>>
                \/ NumericText(csvContent'.lines[k].values[c]) ]_vars

\* The record of the unit of a row, empty when there is none.
RecordOfRow(row) ==
    IF row.unitId \in DOMAIN currentExpenses
    THEN currentExpenses[row.unitId] ELSE EmptyObject

\* Sales minus the eleven other categories, to two decimals.
NetEarnOf(e) == ToFixed2(NumSub(Amount(e, "sales"), SumFrom(e, 2)))

\* C30: the net-earn cell of every row shows the net earn of the unit's
\* record in currentExpenses (of an empty record when there is none), and
\* has the class 'negative' exactly when that value is below 0, 'positive'
\* otherwise.
C30_NetEarnCellIsCurrent ==
    \A i \in 1..Len(rows) :
        /\ rows[i].netEarn = NetEarnOf(RecordOfRow(rows[i]))
        /\ rows[i].netClass =
              IF IsNegative(parseFloat(NetEarnOf(RecordOfRow(rows[i]))))
              THEN "negative" ELSE "positive"

\* A formula is being typed over sales 3.00 of a record with rental 5: the
\* typed text counts as 0 and the cell shows -5.00, negative.
C30_Witness ==
    /\ focused # <<>>
    /\ editStart.typed
    /\ InputAt(focused).value = <<"=", "1", "+", "2">>
    /\ rows[focused[1]].netEarn = <<"-", "5", ".", "0", "0">>
    /\ rows[focused[1]].netClass = "negative"

\* C24: checking a manage checkbox leaves the view checkbox of its resource
\* checked, for each of complaints, issues, repairs and replacements, and
\* checking is_admin leaves every other checkbox of the form checked.
C24_ManageImpliesViewAdminImpliesAll ==
    [][ /\ \A r \in Resources :
              (~checked[ManageOf(r)] /\ checked'[ManageOf(r)]) => checked'[ViewOf(r)]
        /\ (~checked["is_admin"] /\ checked'["is_admin"])
              => \A box \in Permissions : checked'[box] ]_vars

\* C25: a chart is made on a canvas only when the canvas holds no live
\* chart: no canvas holds more than one live chart, and `new Chart` was
\* never called on a canvas in use (a call the library may refuse).
C25_ChartMadeOnlyOnFreeCanvas ==
    /\ \A canvas \in Canvases : Cardinality(charts.live[canvas]) <= 1
    /\ ~charts.thrown

\* C26: after a click on a header of the income table currentIncomeSort is
\* what one toggle makes of the sort before the click: the same field with
\* the direction flipped, or the clicked field ascending.
C26_OneClickOneToggle ==
    income.clicked.field # ""
       => income.sort =
             IF income.clicked.before.field = income.clicked.field
             THEN SortBy(income.clicked.field,
                         IF income.clicked.before.direction = "asc"
                         THEN "desc" ELSE "asc")
             ELSE SortBy(income.clicked.field, "asc")

====
